---- MODULE Spec2Model ----
(***************************************************************************)
(* Workflow execution core of AI-SDK-LANGGRAPH: the State Container        *)
(* (AgentState, src/lib/state.ts), the Checkpoint Store (CheckpointManager,*)
(* src/lib/state.ts) and the Executor with its routing wrappers            *)
(* (GraphExecutor, createCyclicGraph, src/lib/graph.ts).                   *)
(*                                                                         *)
(* JavaScript values are modelled as follows.  null is the string          *)
(* "<null>"; a metadata value is a tagged record: Undefined, Num(n) or     *)
(* Ref(a), the address of an array object in heap.  Objects that the code  *)
(* shares by reference are shared through heap, so aliasing is visible.    *)
(* Message timestamps (Date.now()) are left out of the message records.    *)
(***************************************************************************)
EXTENDS Integers, Sequences, FiniteSets, TLC

VARIABLES
    heap,         \* array objects reachable from metadata: address -> contents
    \* -- the container-level specification
    objs,         \* State Containers
    parent,       \* how each of objs came to be: [via, from]
    last,         \* the last container operation applied and what it saw
    nops,         \* number of container operations applied so far
    \* -- the executor: what it is constructed with
    agents,       \* this.agents: name -> what the agent function does
    config,       \* this.config: [maxIterations, humanInTheLoop]
    wrapper,      \* "none": new GraphExecutor; "cyclic": createCyclicGraph
    visited,      \* createCyclicGraph's set of path signatures
    checkpoints,  \* CheckpointManager.checkpoints: threadId -> Checkpoint[]
    threadIndex,  \* CheckpointManager.threadIndex: threadId -> checkpoint ids
    idSource,     \* what checkpoint ids draw on (Date.now(), Math.random())
    \* -- one invoke call
    pc,           \* "idle", "loop", "await", "returned", "failed"
    inputState,   \* the caller's container
    callerView,   \* what the caller's container read as when invoke was called
    startAgent,
    options,      \* [threadId, checkpoint, waitForHuman, timeout]
    state,        \* let state
    currentAgent, \* let currentAgent
    iterations,   \* let iterations
    awaiting,     \* the agent call in flight: [agent, cut]
    error,        \* message of the error invoke failed with
    calls,        \* the agent calls invoke has made, in order: [agent, cut]
    \* -- the caller
    api,          \* the entry point the caller used
    args,         \* its arguments other than those of invoke
    events,       \* what stream has yielded so far
    storeLog      \* the calls made on the Checkpoint Store and their results

containerVars == <<objs, parent, last, nops>>
executorVars == <<agents, config, wrapper, visited, checkpoints, threadIndex,
                  idSource>>
callVars == <<pc, inputState, callerView, startAgent, options, state,
              currentAgent, iterations, awaiting, error, calls>>
apiVars == <<api, args, events, storeLog>>
vars == <<heap, containerVars, apiVars, executorVars, callVars, apiVars>>

(***************************************************************************)
(* Bounds of the model.                                                    *)
(***************************************************************************)
MaxOps == 2             \* container operations per behaviour
MaxObjs == 3            \* State Containers alive in one behaviour
MaxApprovalCount == 1   \* largest approvalCount of an initial container
MaxMaxApprovals == 2    \* largest maxApprovals of an initial container
MaxIterations == 2      \* largest maxIterations an executor is constructed with
MaxStoreOps == 3        \* calls on a Checkpoint Store in one behaviour
MaxThreadSaves == 2     \* createThread calls before a thread is resumed

(***************************************************************************)
(* JavaScript values.                                                      *)
(***************************************************************************)
null == "<null>"
HUMAN == "__human__"

Undefined == [t |-> "undefined"]
Num(n) == [t |-> "number", v |-> n]
Ref(a) == [t |-> "object", a |-> a]
Arr(s) == [t |-> "array", v |-> s]

MetaKeySeq == <<"data", "executionPath", "iterations", "parallelTargets">>
MetaKeys == {MetaKeySeq[i] : i \in 1..Len(MetaKeySeq)}

\* v || d for a string-or-null v: null and "" are falsy.
OrStr(v, d) == IF v \in {null, ""} THEN d ELSE v

\* v || d for a number v: 0 is falsy.
OrNum(v, d) == IF v = 0 THEN d ELSE v

\* v || d for a metadata value v: undefined and 0 are falsy, objects are truthy.
OrVal(v, d) == IF v = Undefined \/ v = Num(0) THEN d ELSE v

(***************************************************************************)
(* AgentState (src/lib/state.ts).                                          *)
(***************************************************************************)
DefaultMaxApprovals == 3

UserMsg(c) == [role |-> "user", content |-> c]
AssistantMsg(c) == [role |-> "assistant", content |-> c]
SystemMsg(c) == [role |-> "system", content |-> c]

\* new AgentState(): the field initialisers.
EmptyAgentState ==
    [messages |-> <<>>, nextAgent |-> null,
     metadata |-> [k \in MetaKeys |-> Undefined],
     pendingApproval |-> FALSE, approvalCount |-> 0,
     maxApprovals |-> DefaultMaxApprovals]

\* new AgentState(initialState) with every field given: each is taken through
\* "|| default".  A messages array and a metadata object are always truthy.
NewAgentState(init) ==
    [messages |-> init.messages,
     nextAgent |-> OrStr(init.nextAgent, null),
     metadata |-> init.metadata,
     pendingApproval |-> (init.pendingApproval \/ FALSE),
     approvalCount |-> OrNum(init.approvalCount, 0),
     maxApprovals |-> OrNum(init.maxApprovals, DefaultMaxApprovals)]

\* addMessage putting the message at the front.
addMessage_Prepend(s, m) == [s EXCEPT !.messages = <<m>> \o @]

addMessage(s, m) == [s EXCEPT !.messages = Append(@, m)]

setNextAgent(s, agent) == [s EXCEPT !.nextAgent = agent]

getNextAgent(s) == s.nextAgent

setMetadata(s, key, value) == [s EXCEPT !.metadata[key] = value]

getMetadata(s, key) == s.metadata[key]

requestApproval(s) == [s EXCEPT !.pendingApproval = TRUE, !.nextAgent = HUMAN]

isWaitingForApproval(s) == s.pendingApproval

\* approve with the approved branch left out.
approve_KeepsRoute(s, approved, feedback) ==
    LET s1 == [s EXCEPT !.pendingApproval = FALSE, !.approvalCount = @ + 1]
    IN  IF feedback # "" THEN addMessage(s1, UserMsg("Feedback: " \o feedback))
        ELSE s1

\* approve with the retry cap compared before the increment.
approve_CapBeforeIncrement(s, approved, feedback) ==
    LET s1 == [s EXCEPT !.pendingApproval = FALSE, !.approvalCount = @ + 1]
        s2 == IF feedback # ""
              THEN addMessage(s1, UserMsg("Feedback: " \o feedback))
              ELSE s1
    IN  IF approved THEN [s2 EXCEPT !.nextAgent = null]
        ELSE IF s.approvalCount >= s.maxApprovals
             THEN [s2 EXCEPT !.nextAgent = null]
             ELSE s2

\* approve(approved, feedback?); feedback "" stands for an absent (falsy) one.
approve(s, approved, feedback) ==
    LET s1 == [s EXCEPT !.pendingApproval = FALSE, !.approvalCount = @ + 1]
        s2 == IF feedback # ""
              THEN addMessage(s1, UserMsg("Feedback: " \o feedback))
              ELSE s1
    IN  IF approved THEN [s2 EXCEPT !.nextAgent = null]
        ELSE IF s2.approvalCount >= s2.maxApprovals
             THEN [s2 EXCEPT !.nextAgent = null]
             ELSE s2

\* JSON.stringify of one metadata value: an array is written out by value, an
\* undefined value is dropped with its key (it reads back as undefined).
JsonOf(v, h) == IF v.t = "object" THEN Arr(h[v.a]) ELSE v

\* serialize(): the JSON document, as the tree JSON.parse reads back.
serialize(s, h) ==
    [version |-> 1,
     messages |-> s.messages,
     nextAgent |-> s.nextAgent,
     metadata |-> [k \in MetaKeys |-> JsonOf(s.metadata[k], h)],
     pendingApproval |-> s.pendingApproval,
     approvalCount |-> s.approvalCount,
     maxApprovals |-> s.maxApprovals]

\* JSON.parse builds a new array object for every array of the document.
RECURSIVE ParseMetadata(_, _, _, _)
ParseMetadata(i, jmeta, meta, h) ==
    IF i > Len(MetaKeySeq) THEN [metadata |-> meta, heap |-> h]
    ELSE LET k == MetaKeySeq[i]
             v == jmeta[k]
         IN  IF v.t = "array"
             THEN ParseMetadata(i + 1, jmeta,
                                [meta EXCEPT ![k] = Ref(Len(h) + 1)],
                                Append(h, v.v))
             ELSE ParseMetadata(i + 1, jmeta, [meta EXCEPT ![k] = v], h)

\* AgentState.deserialize(json): the new container and the heap holding the
\* arrays JSON.parse allocated for it.
deserialize(json, h) ==
    LET p == ParseMetadata(1, json.metadata,
                           [k \in MetaKeys |-> Undefined], h)
    IN  [state |-> NewAgentState(
                     [messages |-> json.messages,
                      nextAgent |-> OrStr(json.nextAgent, null),
                      metadata |-> p.metadata,
                      pendingApproval |-> (json.pendingApproval \/ FALSE),
                      approvalCount |-> OrNum(json.approvalCount, 0),
                      maxApprovals |-> OrNum(json.maxApprovals,
                                             DefaultMaxApprovals)]),
         heap |-> p.heap]

\* clone(): [...messages] and {...metadata} are new containers of the same
\* elements: a metadata value that is an object is shared with the original.
clone(s) ==
    NewAgentState(
        [messages |-> s.messages,
         nextAgent |-> s.nextAgent,
         metadata |-> [k \in MetaKeys |-> s.metadata[k]],
         pendingApproval |-> s.pendingApproval,
         approvalCount |-> s.approvalCount,
         maxApprovals |-> s.maxApprovals])

\* array.push(x) on the array object a metadata key holds, when it holds one.
PushInto(h, v, x) ==
    IF v.t = "object" THEN [h EXCEPT ![v.a] = Append(@, x)] ELSE h

\* What a reader of the container observes: its fields, with the metadata
\* values followed through the heap.
View(s, h) == [s EXCEPT !.metadata = [k \in MetaKeys |-> JsonOf(s.metadata[k], h)]]

(***************************************************************************)
(* CheckpointManager (src/lib/state.ts).  A Map is a function whose domain *)
(* is the set of keys present.                                             *)
(***************************************************************************)
EmptyMap == <<>>

MapSet(m, k, v) == [x \in DOMAIN m \cup {k} |-> IF x = k THEN v ELSE m[x]]

MapDelete(m, k) == [x \in DOMAIN m \ {k} |-> m[x]]

\* The id `ckpt-${threadId}-${Date.now()}-${random}`: the thread's name, the
\* clock's reading and the digits drawn from Math.random().
CheckpointId(threadId, now, rnd) == <<"ckpt", threadId, now, rnd>>

\* saveCheckpoint with the new checkpoint put in place of the thread's list.
saveCheckpoint_Overwrite(cps, idx, threadId, s, h, now, rnd) ==
    LET id == CheckpointId(threadId, now, rnd)
        checkpoint == [id |-> id, threadId |-> threadId, timestamp |-> now,
                       state |-> serialize(s, h)]
    IN  [checkpoints |-> MapSet(cps, threadId, <<checkpoint>>),
         threadIndex |-> MapSet(idx, threadId, <<id>>),
         id |-> id]

\* saveCheckpoint(threadId, state): the store after the save, and the id.
saveCheckpoint(cps, idx, threadId, s, h, now, rnd) ==
    LET id == CheckpointId(threadId, now, rnd)
        checkpoint == [id |-> id, threadId |-> threadId, timestamp |-> now,
                       state |-> serialize(s, h)]
        cps1 == IF threadId \in DOMAIN cps THEN cps
                ELSE MapSet(cps, threadId, <<>>)
        idx1 == IF threadId \in DOMAIN idx THEN idx
                ELSE MapSet(idx, threadId, <<>>)
    IN  [checkpoints |-> [cps1 EXCEPT ![threadId] = Append(@, checkpoint)],
         threadIndex |-> [idx1 EXCEPT ![threadId] = Append(@, id)],
         id |-> id]

\* What a load returns: the container and the heap it lives on, or nothing
\* (null).
NotLoaded(h) == [found |-> FALSE, heap |-> h]

Loaded(d) == [found |-> TRUE, state |-> d.state, heap |-> d.heap]

\* loadCheckpoint with every thread searched for the id.
loadCheckpoint_AnyThread(cps, threadId, checkpointId, h) ==
    LET all == {c \in UNION {{cps[t][i] : i \in 1..Len(cps[t])} :
                                 t \in DOMAIN cps} : c.id = checkpointId}
    IN  IF all = {} THEN NotLoaded(h)
        ELSE Loaded(deserialize((CHOOSE c \in all : TRUE).state, h))

\* loadCheckpoint(threadId, checkpointId): [state, heap], state null when the
\* thread or the id is absent; find() takes the first checkpoint of that id.
loadCheckpoint(cps, threadId, checkpointId, h) ==
    IF threadId \notin DOMAIN cps THEN NotLoaded(h)
    ELSE LET list == cps[threadId]
             hits == {i \in 1..Len(list) : list[i].id = checkpointId}
         IN  IF hits = {} THEN NotLoaded(h)
             ELSE LET first == CHOOSE i \in hits : \A j \in hits : i <= j
                  IN  Loaded(deserialize(list[first].state, h))

\* loadLatestCheckpoint with the thread's first checkpoint taken.
loadLatestCheckpoint_First(cps, threadId, h) ==
    IF threadId \notin DOMAIN cps THEN NotLoaded(h)
    ELSE IF Len(cps[threadId]) = 0 THEN NotLoaded(h)
    ELSE Loaded(deserialize(cps[threadId][1].state, h))

\* loadLatestCheckpoint(threadId)
loadLatestCheckpoint(cps, threadId, h) ==
    IF threadId \notin DOMAIN cps THEN NotLoaded(h)
    ELSE IF Len(cps[threadId]) = 0 THEN NotLoaded(h)
    ELSE Loaded(deserialize(cps[threadId][Len(cps[threadId])].state, h))

\* getCheckpoints(threadId)
getCheckpoints(cps, threadId) ==
    IF threadId \in DOMAIN cps THEN cps[threadId] ELSE <<>>

\* listThreads()
listThreads(cps) == DOMAIN cps

\* deleteThread with the checkpoints kept and only the index entry dropped.
deleteThread_IndexOnly(cps, idx, threadId) ==
    [checkpoints |-> cps,
     threadIndex |-> MapDelete(idx, threadId),
     deleted |-> threadId \in DOMAIN cps]

\* deleteThread doing what clear() does: every thread is dropped.
deleteThread_Clear(cps, idx, threadId) ==
    [checkpoints |-> EmptyMap,
     threadIndex |-> EmptyMap,
     deleted |-> threadId \in DOMAIN cps]

\* deleteThread(threadId): Map.delete says whether the key was present.
deleteThread(cps, idx, threadId) ==
    [checkpoints |-> MapDelete(cps, threadId),
     threadIndex |-> MapDelete(idx, threadId),
     deleted |-> threadId \in DOMAIN cps]

(***************************************************************************)
(* Container-level specification: one State Container drawn from the       *)
(* bounded domain, then MaxOps operations on it and on its copies.         *)
(***************************************************************************)
InitialContainers ==
    { [messages |-> ms, nextAgent |-> na,
       metadata |-> [k \in MetaKeys |->
                        IF k = "data" THEN d
                        ELSE IF k = "iterations" THEN it ELSE Undefined],
       pendingApproval |-> pa, approvalCount |-> ac, maxApprovals |-> ma] :
        ms \in {<<>>, <<UserMsg("Hello")>>},
        na \in {null, "A", HUMAN},
        d \in {Undefined, Ref(1)},
        it \in {Undefined, Num(1)},
        pa \in BOOLEAN,
        ac \in 0..MaxApprovalCount,
        ma \in 0..MaxMaxApprovals }

Views == [i \in 1..Len(objs) |-> View(objs[i], heap)]

Record(op, target, arg) ==
    last' = [op |-> op, target |-> target, arg |-> arg, pre |-> Views]

NoContainer == [messages |-> <<>>, nextAgent |-> null]

\* No entry point called yet.
CallerIdle ==
    /\ api = "none"
    /\ args = <<>>
    /\ events = <<>>
    /\ storeLog = <<>>

\* A new CheckpointManager; idSource is the clock Date.now() reads.
StoreEmpty ==
    /\ checkpoints = EmptyMap
    /\ threadIndex = EmptyMap
    /\ idSource = 0

\* No call of the executor in progress.
CallUnused ==
    /\ pc = "unused"
    /\ inputState = NoContainer
    /\ callerView = NoContainer
    /\ startAgent = null
    /\ options = <<>>
    /\ state = NoContainer
    /\ currentAgent = null
    /\ iterations = 0
    /\ awaiting = <<>>
    /\ error = ""
    /\ calls = <<>>

\* The executor stands by, unconstructed, in the container-level specification.
ExecutorUnused ==
    /\ agents = <<>>
    /\ config = [maxIterations |-> 0, humanInTheLoop |-> FALSE]
    /\ wrapper = "none"
    /\ visited = {}
    /\ StoreEmpty
    /\ CallUnused
    /\ CallerIdle

StateInit ==
    /\ ExecutorUnused
    /\ objs \in {<<s>> : s \in InitialContainers}
    /\ heap = <<<<"x">>>>
    /\ parent = <<[via |-> "new", from |-> 0]>>
    /\ last = [op |-> "new", target |-> 1, arg |-> <<>>, pre |-> <<>>]
    /\ nops = 0

Step == nops < MaxOps /\ nops' = nops + 1

OpAddMessage(o) ==
    /\ Step
    /\ objs' = [objs EXCEPT ![o] = addMessage(@, AssistantMsg("m"))]
    /\ Record("addMessage", o, <<>>)
    /\ UNCHANGED <<heap, parent, executorVars, callVars, apiVars>>

OpSetNextAgent(o, agent) ==
    /\ Step
    /\ objs' = [objs EXCEPT ![o] = setNextAgent(@, agent)]
    /\ Record("setNextAgent", o, <<agent>>)
    /\ UNCHANGED <<heap, parent, executorVars, callVars, apiVars>>

OpSetMetadata(o, key, value) ==
    /\ Step
    /\ objs' = [objs EXCEPT ![o] = setMetadata(@, key, value)]
    /\ Record("setMetadata", o, <<key>>)
    /\ UNCHANGED <<heap, parent, executorVars, callVars, apiVars>>

\* state.getMetadata(key).push("y"): a change to the value held under key.
OpChangeValue(o, key) ==
    /\ Step
    /\ getMetadata(objs[o], key).t = "object"
    /\ heap' = PushInto(heap, getMetadata(objs[o], key), "y")
    /\ Record("changeValue", o, <<key>>)
    /\ UNCHANGED <<objs, parent, executorVars, callVars, apiVars>>

OpRequestApproval(o) ==
    /\ Step
    /\ objs' = [objs EXCEPT ![o] = requestApproval(@)]
    /\ Record("requestApproval", o, <<>>)
    /\ UNCHANGED <<heap, parent, executorVars, callVars, apiVars>>

OpApprove(o, approved, feedback) ==
    /\ Step
    /\ objs' = [objs EXCEPT ![o] = approve(@, approved, feedback)]
    /\ Record("approve", o, <<approved, feedback>>)
    /\ UNCHANGED <<heap, parent, executorVars, callVars, apiVars>>

OpClone(o) ==
    /\ Step
    /\ Len(objs) < MaxObjs
    /\ objs' = Append(objs, clone(objs[o]))
    /\ parent' = Append(parent, [via |-> "clone", from |-> o])
    /\ Record("clone", o, <<>>)
    /\ UNCHANGED <<heap, executorVars, callVars, apiVars>>

OpRoundTrip(o) ==
    /\ Step
    /\ Len(objs) < MaxObjs
    /\ LET d == deserialize(serialize(objs[o], heap), heap)
       IN  /\ objs' = Append(objs, d.state)
           /\ heap' = d.heap
    /\ parent' = Append(parent, [via |-> "deserialize", from |-> o])
    /\ Record("deserialize", o, <<>>)
    /\ UNCHANGED <<executorVars, callVars, apiVars>>

StateNext ==
    \/ \E o \in 1..Len(objs) : OpAddMessage(o)
    \/ \E o \in 1..Len(objs), agent \in {null, "A", HUMAN} :
           OpSetNextAgent(o, agent)
    \/ \E o \in 1..Len(objs), value \in {Num(0), Num(2)} :
           OpSetMetadata(o, "iterations", value)
    \/ \E o \in 1..Len(objs), key \in MetaKeys : OpChangeValue(o, key)
    \/ \E o \in 1..Len(objs) : OpRequestApproval(o)
    \/ \E o \in 1..Len(objs), approved \in BOOLEAN, feedback \in {"", "more"} :
           OpApprove(o, approved, feedback)
    \/ \E o \in 1..Len(objs) : OpClone(o)
    \/ \E o \in 1..Len(objs) : OpRoundTrip(o)

StateSpec == StateInit /\ [][StateNext]_vars

(***************************************************************************)
(* Agents.  An agent function is user code; the model draws each one from  *)
(* a family of deterministic behaviours:                                   *)
(*   next     what it does to the route: leave it ("<keep>"), call         *)
(*            requestApproval() ("<approval>"), or setNextAgent(next);     *)
(*   touch    whether it counts itself in metadata "iterations" and pushes *)
(*            its name onto the array held under metadata "data";          *)
(*   outcome  "state": returns the container it was given; "null": returns *)
(*            null after changing that container; "fresh": builds and      *)
(*            returns a new AgentState, leaving the given one alone;       *)
(*            "throw": throws Error("Agent failed"); "throwTimeout":       *)
(*            throws Error("Execution timeout"), an error of its own with  *)
(*            the message the executor's timer uses; "slow": returns the   *)
(*            given container after SlowAgentMs milliseconds.              *)
(* Every agent that returns appends one assistant message.  An agent that  *)
(* throws does so before anything else, and a slow agent keeps no count.   *)
(***************************************************************************)
KEEP == "<keep>"
APPROVAL == "<approval>"

SlowAgentMs == 2000
ShortTimeoutMs == 100
DefaultTimeoutMs == 30000
DefaultMaxIterations == 10

Throws(b) == b.outcome \in {"throw", "throwTimeout"}

\* The message of the Error the agent throws.
Thrown(b) ==
    IF b.outcome = "throw" THEN "Agent failed" ELSE "Execution timeout"

BehavioursA ==
    {b \in [next : {KEEP, APPROVAL, null, "A", "B", HUMAN},
            touch : BOOLEAN,
            outcome : {"state", "null", "fresh", "throw", "throwTimeout",
                       "slow"}] :
        /\ Throws(b) => (b.next = KEEP /\ ~b.touch)
        /\ b.outcome = "slow" => ~b.touch}

BehavioursB ==
    [next : {null, "A", "C", "X"}, touch : {FALSE}, outcome : {"state"}]

\* The last agent of a chain.
BehaviourC == [next |-> null, touch |-> FALSE, outcome |-> "state"]

Registries == {[n \in {"A", "B", "C"} |->
                   IF n = "A" THEN a ELSE IF n = "B" THEN b ELSE BehaviourC] :
                  a \in BehavioursA, b \in BehavioursB}

\* The agent createHumanInTheLoopGraph registers under the start agent's name.
HitlAgent == [next |-> APPROVAL, touch |-> FALSE, outcome |-> "state",
              says |-> "Action completed, awaiting approval"]

Duration(b) == IF b.outcome = "slow" THEN SlowAgentMs ELSE 0

\* The content of the message the agent appends.
Says(name, b) == IF "says" \in DOMAIN b THEN b.says ELSE name

\* The agent's changes to the container s it works on.
AgentEffects(s, h, name, b) ==
    LET s1 == addMessage(s, AssistantMsg(Says(name, b)))
        n == OrVal(getMetadata(s1, "iterations"), Num(0))
        s2 == IF b.touch THEN setMetadata(s1, "iterations", Num(n.v + 1))
              ELSE s1
        h2 == IF b.touch THEN PushInto(h, getMetadata(s1, "data"), name)
              ELSE h
        s3 == IF b.next = KEEP THEN s2
              ELSE IF b.next = APPROVAL THEN requestApproval(s2)
              ELSE setNextAgent(s2, b.next)
    IN  [state |-> s3, heap |-> h2]

\* A call after which the executor goes on with the container it passed even
\* when the agent returned another one.
RunAgent_Given(s, h, name, b) ==
    IF b.outcome = "fresh" THEN [state |-> s, heap |-> h]
    ELSE AgentEffects(s, h, name, b)

\* One completed call of the agent function on container s: the container the
\* executor goes on with.  A returned container replaces the executor's; with
\* null the executor keeps s, which the agent changed in place.
RunAgent(s, h, name, b) ==
    IF b.outcome = "fresh" THEN AgentEffects(EmptyAgentState, h, name, b)
    ELSE AgentEffects(s, h, name, b)

(***************************************************************************)
(* createRoutingGraph (src/lib/graph.ts).  The routing function is the     *)
(* caller's; the one here routes by the last message, A's to B, B's to C,  *)
(* and ends the run after any other.                                       *)
(***************************************************************************)
routingFn(s) ==
    LET lastMessage == s.messages[Len(s.messages)]
    IN  IF Len(s.messages) = 0 \/ lastMessage.role # "assistant" THEN null
        ELSE IF lastMessage.content = "A" THEN "B"
        ELSE IF lastMessage.content = "B" THEN "C"
        ELSE null

\* The wrapped agent: the routing function is applied to a container the
\* agent returns, and null is passed on.
RoutedAgent(s, h, name, b) ==
    LET result == RunAgent(s, h, name, b)
    IN  IF b.outcome = "null" THEN result
        ELSE [state |-> setNextAgent(result.state, routingFn(result.state)),
              heap |-> result.heap]

(***************************************************************************)
(* createCyclicGraph (src/lib/graph.ts): the wrapper's steps before it     *)
(* calls the wrapped agent.                                                *)
(***************************************************************************)
RECURSIVE Join(_, _)
Join(path, sep) ==
    IF Len(path) = 0 THEN ""
    ELSE IF Len(path) = 1 THEN path[1]
    ELSE path[1] \o sep \o Join(Tail(path), sep)

CycleMsg(name) == SystemMsg("Cycle detected at " \o name \o ". Breaking cycle.")

PathKey(currentPath) == Join(currentPath, "->")

\* The wrapper with signatures recorded and never looked up.
CyclicPrelude_NoLookup(s, h, seen, name) ==
    LET held == getMetadata(s, "executionPath")
        path == IF held.t = "object" THEN h[held.a] ELSE <<>>
        currentPath == Append(path, name)
    IN  [state |-> setMetadata(s, "executionPath", Ref(Len(h) + 1)),
         heap |-> Append(h, currentPath),
         visited |-> seen \cup {PathKey(currentPath)}, cut |-> FALSE]

\* [state, heap, visited, cut]: cut when the signature was seen before and the
\* wrapper returns without calling the wrapped agent.
CyclicPrelude(s, h, seen, name) ==
    LET held == getMetadata(s, "executionPath")
        path == IF held.t = "object" THEN h[held.a] ELSE <<>>
        currentPath == Append(path, name)
        pathKey == PathKey(currentPath)
    IN  IF pathKey \in seen
        THEN [state |-> setNextAgent(addMessage(s, CycleMsg(name)), null),
              heap |-> h, visited |-> seen, cut |-> TRUE]
        ELSE [state |-> setMetadata(s, "executionPath", Ref(Len(h) + 1)),
              heap |-> Append(h, currentPath),
              visited |-> seen \cup {pathKey}, cut |-> FALSE]

(***************************************************************************)
(* GraphExecutor (src/lib/graph.ts).                                       *)
(***************************************************************************)
\* config.maxIterations || 10
EffectiveMaxIterations(given) == OrNum(given, DefaultMaxIterations)

\* The timeout with options.timeout not read.
EffectiveTimeout_Default(opts) == DefaultTimeoutMs

\* options.timeout || 30000
EffectiveTimeout(opts) == OrNum(opts.timeout, DefaultTimeoutMs)

\* Promise.race of the agent's promise against the timer.
TimesOut(b, opts) == Duration(b) > EffectiveTimeout(opts)

\* The loop condition with the cap compared by <=.
LoopCondition_OffByOne(cur, iters, cfg) ==
    cur \notin {null, ""} /\ iters <= cfg.maxIterations

\* while (currentAgent && iterations < this.config.maxIterations)
LoopCondition(cur, iters, cfg) ==
    cur \notin {null, ""} /\ iters < cfg.maxIterations

\* The sentinel test of a loop that has no special case for it.
IsHumanSentinel_Never(agent) == FALSE

\* currentAgent === "__human__"
IsHumanSentinel(agent) == agent = HUMAN

\* The two breaks at the head of the loop body.
ShouldPause(s, cur, opts, cfg) ==
    \/ isWaitingForApproval(s) /\ cfg.humanInTheLoop /\ opts.waitForHuman
    \/ IsHumanSentinel(cur) /\ opts.waitForHuman

\* The lookup error without the agent's name.
NotFoundError_Anonymous(agent) == "Agent not found"

NotFoundError(agent) == "Agent '" \o agent \o "' not found"
TimeoutError(agent) == "Agent '" \o agent \o "' timed out"
ExecutionTimeout == "Execution timeout"

\* The catch block of invoke: the message of the error that leaves invoke
\* when the error caught has message msg.
Rethrown(msg, agent) ==
    IF msg = ExecutionTimeout THEN TimeoutError(agent) ELSE msg

\* invoke called without options.
NoOptions == [threadId |-> "", checkpoint |-> FALSE, waitForHuman |-> FALSE,
              timeout |-> 0]

InputStates ==
    {[EmptyAgentState EXCEPT !.messages = <<UserMsg("Hello")>>,
                             !.metadata["data"] = Ref(1),
                             !.nextAgent = na] : na \in {null, HUMAN}}

\* timeout 0 and threadId "" stand for an option that is not given.
OptionSets ==
    {o \in [threadId : {"", "t1"}, checkpoint : BOOLEAN,
            waitForHuman : BOOLEAN, timeout : {0, ShortTimeoutMs}] :
        o.threadId = "" \/ o.checkpoint}

ContainersUnused ==
    /\ objs = <<>>
    /\ parent = <<>>
    /\ last = [op |-> "none", target |-> 0, arg |-> <<>>, pre |-> <<>>]
    /\ nops = 0

\* The state after construction: an executor over a registry of agents, the
\* caller's data array on the heap, and no call made yet.
Init ==
    /\ ContainersUnused
    /\ heap = <<<<"x">>>>
    /\ agents \in Registries
    /\ \E given \in 0..MaxIterations, hitl \in BOOLEAN :
           config = [maxIterations |-> EffectiveMaxIterations(given),
                     humanInTheLoop |-> hitl]
    /\ wrapper \in {"none", "cyclic"}
    /\ visited = {}
    /\ StoreEmpty
    /\ pc = "idle"
    /\ inputState = NoContainer
    /\ callerView = NoContainer
    /\ startAgent = null
    /\ options = <<>>
    /\ state = NoContainer
    /\ currentAgent = null
    /\ iterations = 0
    /\ awaiting = <<>>
    /\ error = ""
    /\ calls = <<>>
    /\ CallerIdle

\* invoke(inputState, startAgent, options): up to the loop.
InvokeCall(input, start, opts) ==
    /\ pc = "idle"
    /\ inputState' = input
    /\ callerView' = View(input, heap)
    /\ startAgent' = start
    /\ options' = opts
    /\ state' = clone(input)
    /\ currentAgent' = start
    /\ iterations' = 0
    /\ pc' = "loop"
    /\ api' = "invoke"
    /\ UNCHANGED <<heap, containerVars, executorVars, awaiting, error, calls,
                   args, events, storeLog>>

\* The loop condition fails: return state.
InvokeLoopExit ==
    /\ pc = "loop"
    /\ ~LoopCondition(currentAgent, iterations, config)
    /\ pc' = "returned"
    /\ UNCHANGED <<heap, containerVars, apiVars, executorVars, inputState, callerView,
                   startAgent, options, state, currentAgent, iterations,
                   awaiting, error, calls>>

\* break: the run is suspended for the human.
InvokePause ==
    /\ pc = "loop"
    /\ LoopCondition(currentAgent, iterations, config)
    /\ ShouldPause(state, currentAgent, options, config)
    /\ pc' = "returned"
    /\ UNCHANGED <<heap, containerVars, apiVars, executorVars, inputState, callerView,
                   startAgent, options, state, currentAgent, iterations,
                   awaiting, error, calls>>

\* The sentinel without waitForHuman: currentAgent = state.getNextAgent();
\* continue.
InvokeSkipHuman ==
    /\ pc = "loop"
    /\ LoopCondition(currentAgent, iterations, config)
    /\ ~ShouldPause(state, currentAgent, options, config)
    /\ IsHumanSentinel(currentAgent)
    /\ currentAgent' = getNextAgent(state)
    /\ UNCHANGED <<heap, containerVars, apiVars, executorVars, pc, inputState,
                   callerView, startAgent, options, state, iterations,
                   awaiting, error, calls>>

\* this.agents[currentAgent] is undefined: the error leaves invoke.
InvokeAgentNotFound ==
    /\ pc = "loop"
    /\ LoopCondition(currentAgent, iterations, config)
    /\ ~ShouldPause(state, currentAgent, options, config)
    /\ ~IsHumanSentinel(currentAgent)
    /\ currentAgent \notin DOMAIN agents
    /\ pc' = "failed"
    /\ error' = NotFoundError(currentAgent)
    /\ UNCHANGED <<heap, containerVars, apiVars, executorVars, inputState, callerView,
                   startAgent, options, state, currentAgent, iterations,
                   awaiting, calls>>

\* agentFn(state): the call runs up to the agent's first await.  Under
\* createCyclicGraph that is the wrapper's path check.
InvokeCallAgent ==
    /\ pc = "loop"
    /\ LoopCondition(currentAgent, iterations, config)
    /\ ~ShouldPause(state, currentAgent, options, config)
    /\ ~IsHumanSentinel(currentAgent)
    /\ currentAgent \in DOMAIN agents
    /\ IF wrapper = "cyclic"
       THEN LET w == CyclicPrelude(state, heap, visited, currentAgent)
            IN  /\ state' = w.state
                /\ heap' = w.heap
                /\ visited' = w.visited
                /\ awaiting' = [agent |-> currentAgent, cut |-> w.cut]
       ELSE /\ awaiting' = [agent |-> currentAgent, cut |-> FALSE]
            /\ UNCHANGED <<state, heap, visited>>
    /\ calls' = Append(calls, awaiting')
    /\ pc' = "await"
    /\ UNCHANGED <<containerVars, apiVars, agents, config, wrapper, checkpoints,
                   threadIndex, idSource, inputState, callerView, startAgent,
                   options, currentAgent, iterations, error>>

\* The rest of the loop body once the agent's promise has resolved with the
\* container r.state: route, checkpoint, count.
AfterAgent(r) ==
    /\ state' = r.state
    /\ heap' = r.heap
    /\ currentAgent' = getNextAgent(r.state)
    /\ IF options.checkpoint /\ options.threadId # ""
       THEN LET saved == saveCheckpoint(checkpoints, threadIndex,
                                        options.threadId, r.state, r.heap,
                                        idSource + 1, 0)
            IN  /\ checkpoints' = saved.checkpoints
                /\ threadIndex' = saved.threadIndex
                /\ idSource' = idSource + 1
       ELSE UNCHANGED <<checkpoints, threadIndex, idSource>>
    /\ iterations' = iterations + 1
    /\ pc' = "loop"
    /\ awaiting' = <<>>
    /\ UNCHANGED <<containerVars, apiVars, agents, config, wrapper, visited,
                   inputState, callerView, startAgent, options, error, calls>>

\* The awaited agent call resolves before the timer.
AgentResolves ==
    /\ pc = "await"
    /\ LET b == agents[awaiting.agent]
       IN  IF awaiting.cut
           THEN AfterAgent([state |-> state, heap |-> heap])
           ELSE /\ ~Throws(b)
                /\ ~TimesOut(b, options)
                /\ AfterAgent(IF wrapper = "routing"
                              THEN RoutedAgent(state, heap, awaiting.agent, b)
                              ELSE RunAgent(state, heap, awaiting.agent, b))

\* The awaited agent call rejects: the error leaves invoke as it is.
AgentThrows ==
    /\ pc = "await"
    /\ ~awaiting.cut
    /\ Throws(agents[awaiting.agent])
    /\ pc' = "failed"
    /\ error' = Rethrown(Thrown(agents[awaiting.agent]), currentAgent)
    /\ UNCHANGED <<heap, containerVars, apiVars, executorVars, inputState, callerView,
                   startAgent, options, state, currentAgent, iterations,
                   awaiting, calls>>

\* The timer wins the race: "Execution timeout" is rethrown naming the agent.
AgentTimesOut ==
    /\ pc = "await"
    /\ ~awaiting.cut
    /\ ~Throws(agents[awaiting.agent])
    /\ TimesOut(agents[awaiting.agent], options)
    /\ pc' = "failed"
    /\ error' = Rethrown(ExecutionTimeout, currentAgent)
    /\ UNCHANGED <<heap, containerVars, apiVars, executorVars, inputState, callerView,
                   startAgent, options, state, currentAgent, iterations,
                   awaiting, calls>>

(***************************************************************************)
(* createHumanInTheLoopGraph (src/lib/state.ts): the graph's invoke builds *)
(* an executor of its own, over the one agent it registers under the start *)
(* agent's name, and calls the executor's invoke without options.          *)
(***************************************************************************)
HitlCall(entry, input, start, feedback) ==
    /\ pc = "idle"
    /\ agents' = [n \in {start} |-> HitlAgent]
    /\ config' = [config EXCEPT !.humanInTheLoop = TRUE]
    /\ wrapper' = "none"
    /\ inputState' = input
    /\ callerView' = View(input, heap)
    /\ startAgent' = start
    /\ options' = NoOptions
    /\ state' = clone(input)
    /\ currentAgent' = start
    /\ iterations' = 0
    /\ pc' = "loop"
    /\ api' = entry
    /\ args' = feedback
    /\ UNCHANGED <<heap, containerVars, visited, checkpoints, threadIndex,
                   idSource, awaiting, error, calls, events, storeLog>>

\* graph.invoke(inputState, startAgent)
HitlInvoke(input, start) == HitlCall("hitl.invoke", input, start, <<>>)

\* graph.invokeWithFeedback(inputState, startAgent, feedback): up to the loop
\* of the executor's invoke.
HitlInvokeWithFeedback(input, start, feedback) ==
    HitlCall("hitl.invokeWithFeedback", input, start, feedback)

\* The rest of invokeWithFeedback once invoke has returned:
\* result.approve(feedback.approved, feedback.feedback).
HitlApprove ==
    /\ pc = "returned"
    /\ api = "hitl.invokeWithFeedback"
    /\ state' = approve(state, args.approved, args.feedback)
    /\ pc' = "done"
    /\ UNCHANGED <<heap, containerVars, executorVars, inputState, callerView,
                   startAgent, options, currentAgent, iterations, awaiting,
                   error, calls, api, args, events, storeLog>>

Feedbacks == [approved : BOOLEAN, feedback : {"", "more"}]

Starts == {"A", "X", HUMAN}

Next ==
    \/ \E input \in InputStates, start \in Starts, opts \in OptionSets :
           InvokeCall(input, start, opts)
    \/ \E input \in InputStates, start \in Starts : HitlInvoke(input, start)
    \/ \E input \in InputStates, start \in Starts, feedback \in Feedbacks :
           HitlInvokeWithFeedback(input, start, feedback)
    \/ HitlApprove
    \/ InvokeLoopExit
    \/ InvokePause
    \/ InvokeSkipHuman
    \/ InvokeAgentNotFound
    \/ InvokeCallAgent
    \/ AgentResolves
    \/ AgentThrows
    \/ AgentTimesOut

Spec == Init /\ [][Next]_vars

(***************************************************************************)
(* Store-level specification: a CheckpointManager on its own, and up to    *)
(* MaxStoreOps calls on it.  The clock may or may not have moved on        *)
(* between two saves, and Math.random() may return what it returned        *)
(* before.                                                                 *)
(***************************************************************************)
Threads == {"t1", "t2"}
Ticks == {0, 1}
Randoms == {0, 1}

StoredStates ==
    {[EmptyAgentState EXCEPT !.messages = <<UserMsg("Hello")>>,
                             !.metadata["data"] = Ref(1),
                             !.nextAgent = "A"],
     [EmptyAgentState EXCEPT !.pendingApproval = TRUE,
                             !.nextAgent = HUMAN,
                             !.maxApprovals = 0]}

\* An id no save has returned.
NoSuchId == CheckpointId("t1", 99, 0)

\* The ids the saves so far have returned.
ReturnedIds == {storeLog[i].ret : i \in {j \in 1..Len(storeLog) :
                                            storeLog[j].op = "saveCheckpoint"}}

\* A State|null result as the caller reads it; <<>> stands for null.
Returned(r) == IF r.found THEN <<View(r.state, r.heap)>> ELSE <<>>

Store == [checkpoints |-> checkpoints, threadIndex |-> threadIndex]

\* One more call on the store: what was called, on what, what it returned and
\* what the store was before.
Logged(op, threadId, arg, ret) ==
    /\ Len(storeLog) < MaxStoreOps
    /\ storeLog' = Append(storeLog,
                          [n |-> Len(storeLog) + 1, op |-> op,
                           threadId |-> threadId, arg |-> arg, ret |-> ret,
                           pre |-> Store])

StoreInit ==
    /\ ContainersUnused
    /\ heap = <<<<"x">>>>
    /\ agents = <<>>
    /\ config = [maxIterations |-> 0, humanInTheLoop |-> FALSE]
    /\ wrapper = "none"
    /\ visited = {}
    /\ StoreEmpty
    /\ CallUnused
    /\ CallerIdle

StoreSave(threadId, s, tick, rnd) ==
    LET saved == saveCheckpoint(checkpoints, threadIndex, threadId, s, heap,
                                idSource + tick, rnd)
    IN  /\ Logged("saveCheckpoint", threadId, View(s, heap), saved.id)
        /\ checkpoints' = saved.checkpoints
        /\ threadIndex' = saved.threadIndex
        /\ idSource' = idSource + tick
        /\ UNCHANGED <<heap, containerVars, agents, config, wrapper, visited,
                       callVars, api, args, events>>

StoreLoad(threadId, checkpointId) ==
    LET r == loadCheckpoint(checkpoints, threadId, checkpointId, heap)
    IN  /\ Logged("loadCheckpoint", threadId, checkpointId,
                  Returned(r))
        /\ heap' = r.heap
        /\ UNCHANGED <<containerVars, executorVars, callVars, api, args,
                       events>>

StoreLoadLatest(threadId) ==
    LET r == loadLatestCheckpoint(checkpoints, threadId, heap)
    IN  /\ Logged("loadLatestCheckpoint", threadId, <<>>,
                  Returned(r))
        /\ heap' = r.heap
        /\ UNCHANGED <<containerVars, executorVars, callVars, api, args,
                       events>>

StoreDelete(threadId) ==
    LET r == deleteThread(checkpoints, threadIndex, threadId)
    IN  /\ Logged("deleteThread", threadId, <<>>, r.deleted)
        /\ checkpoints' = r.checkpoints
        /\ threadIndex' = r.threadIndex
        /\ UNCHANGED <<heap, containerVars, agents, config, wrapper, visited,
                       idSource, callVars, api, args, events>>

StoreNext ==
    \/ \E threadId \in Threads, s \in StoredStates, tick \in Ticks,
          rnd \in Randoms : StoreSave(threadId, s, tick, rnd)
    \/ \E threadId \in Threads, checkpointId \in ReturnedIds \cup {NoSuchId} :
           StoreLoad(threadId, checkpointId)
    \/ \E threadId \in Threads : StoreLoadLatest(threadId)
    \/ \E threadId \in Threads : StoreDelete(threadId)

StoreSpec == StoreInit /\ [][StoreNext]_vars

(***************************************************************************)
(* Thread-level specification: an executor, a few threads created on its   *)
(* store with createThread, and then one call of resumeFromCheckpoint or   *)
(* of submitHumanFeedback.  Both call invoke with { threadId, checkpoint:  *)
(* true }: no waitForHuman, so the breaks of the loop are not taken and    *)
(* humanInTheLoop is not read, and no timeout, so the default applies.     *)
(* The executor's saves are a millisecond apart.                           *)
(***************************************************************************)
\* The states createThread is called with: three on thread "t1", one on the
\* other thread.
ThreadStates(threadId) ==
    IF threadId = "t1"
    THEN {[EmptyAgentState EXCEPT !.messages = <<UserMsg("Hello")>>,
                                  !.metadata["data"] = Ref(1),
                                  !.nextAgent = "A"],
          [EmptyAgentState EXCEPT !.nextAgent = HUMAN,
                                  !.pendingApproval = TRUE],
          EmptyAgentState}
    ELSE {EmptyAgentState}

ThreadRegistries ==
    {r \in Registries : /\ ~r["A"].touch
                        /\ r["A"].outcome \in {"state", "throw"}
                        /\ r["B"].next \in {null, "A"}}

ThreadInit ==
    /\ ContainersUnused
    /\ heap = <<<<"x">>>>
    /\ agents \in ThreadRegistries
    /\ \E given \in 0..MaxIterations :
           config = [maxIterations |-> EffectiveMaxIterations(given),
                     humanInTheLoop |-> FALSE]
    /\ wrapper = "none"
    /\ visited = {}
    /\ StoreEmpty
    /\ pc = "idle"
    /\ inputState = NoContainer
    /\ callerView = NoContainer
    /\ startAgent = null
    /\ options = <<>>
    /\ state = NoContainer
    /\ currentAgent = null
    /\ iterations = 0
    /\ awaiting = <<>>
    /\ error = ""
    /\ calls = <<>>
    /\ CallerIdle

\* createThread(threadId, initialState)
CreateThread(threadId, s) ==
    LET saved == saveCheckpoint(checkpoints, threadIndex, threadId, s, heap,
                                idSource + 1, 0)
    IN  /\ pc = "idle"
        /\ idSource < MaxThreadSaves
        /\ Logged("saveCheckpoint", threadId, View(s, heap), saved.id)
        /\ checkpoints' = saved.checkpoints
        /\ threadIndex' = saved.threadIndex
        /\ idSource' = idSource + 1
        /\ UNCHANGED <<heap, containerVars, agents, config, wrapper, visited,
                       callVars, api, args, events>>

\* `Checkpoint ${checkpointId} not found for thread ${threadId}`
CheckpointNotFoundError(checkpointId, threadId) ==
    <<"Checkpoint", checkpointId, "not found for thread", threadId>>

NoNextAgentError == "No next agent specified in checkpoint"

\* The options resumeFromCheckpoint and submitHumanFeedback call invoke with.
ThreadOptions(threadId) ==
    [threadId |-> threadId, checkpoint |-> TRUE, waitForHuman |-> FALSE,
     timeout |-> 0]

\* this.invoke(input, start, opts), up to the loop, on the heap h.
InvokeFrom(input, h, start, opts) ==
    /\ heap' = h
    /\ inputState' = input
    /\ callerView' = View(input, h)
    /\ startAgent' = start
    /\ options' = opts
    /\ state' = clone(input)
    /\ currentAgent' = start
    /\ iterations' = 0
    /\ pc' = "loop"
    /\ UNCHANGED error

\* throw new Error(msg) before invoke is reached.
FailWith(msg) ==
    /\ pc' = "failed"
    /\ error' = msg
    /\ UNCHANGED <<heap, inputState, callerView, startAgent, options, state,
                   currentAgent, iterations>>

\* The agent to resume with, the argument forceAgent not being read.
ResumeAgent_IgnoreForce(forceAgent, s) == getNextAgent(s)

\* forceAgent || state.getNextAgent(); forceAgent "" stands for none given.
ResumeAgent(forceAgent, s) == OrStr(forceAgent, getNextAgent(s))

\* resumeFromCheckpoint(threadId, checkpointId, forceAgent?): up to the loop
\* of invoke, or to the error thrown before it.
ResumeCall(threadId, checkpointId, forceAgent) ==
    LET r == loadCheckpoint(checkpoints, threadId, checkpointId, heap)
    IN  /\ pc = "idle"
        /\ api' = "resumeFromCheckpoint"
        /\ args' = [threadId |-> threadId, checkpointId |-> checkpointId,
                    forceAgent |-> forceAgent, pre |-> Store, heap |-> heap]
        /\ IF ~r.found
           THEN FailWith(CheckpointNotFoundError(checkpointId, threadId))
           ELSE IF ResumeAgent(forceAgent, r.state) \in {null, ""}
           THEN FailWith(NoNextAgentError)
           ELSE InvokeFrom(r.state, r.heap, ResumeAgent(forceAgent, r.state),
                           ThreadOptions(threadId))
        /\ UNCHANGED <<containerVars, executorVars, awaiting, calls, events,
                       storeLog>>

\* The test for going on after feedback with the sentinel taken for an agent.
ContinuesAfterFeedback_Sentinel(nextAgent) == nextAgent \notin {null, ""}

\* !(!nextAgent || nextAgent === "__human__")
ContinuesAfterFeedback(nextAgent) ==
    nextAgent \notin {null, ""} /\ nextAgent # HUMAN

\* submitHumanFeedback(threadId, checkpointId, feedback): up to the loop of
\* invoke, to its own return, or to the error thrown.
SubmitCall(threadId, checkpointId, feedback) ==
    LET r == loadCheckpoint(checkpoints, threadId, checkpointId, heap)
        updatedState == approve(r.state, feedback.approved, feedback.feedback)
        saved == saveCheckpoint(checkpoints, threadIndex, threadId,
                                updatedState, r.heap, idSource + 1, 0)
    IN  /\ pc = "idle"
        /\ api' = "submitHumanFeedback"
        /\ args' = [threadId |-> threadId, checkpointId |-> checkpointId,
                    feedback |-> feedback, pre |-> Store, heap |-> heap]
        /\ IF ~r.found
           THEN /\ FailWith(CheckpointNotFoundError(checkpointId, threadId))
                /\ UNCHANGED <<checkpoints, threadIndex, idSource>>
           ELSE /\ checkpoints' = saved.checkpoints
                /\ threadIndex' = saved.threadIndex
                /\ idSource' = idSource + 1
                /\ IF ContinuesAfterFeedback(getNextAgent(updatedState))
                   THEN InvokeFrom(updatedState, r.heap,
                                   getNextAgent(updatedState),
                                   ThreadOptions(threadId))
                   ELSE /\ state' = updatedState
                        /\ heap' = r.heap
                        /\ pc' = "returned"
                        /\ UNCHANGED <<inputState, callerView, startAgent,
                                       options, currentAgent, iterations,
                                       error>>
        /\ UNCHANGED <<containerVars, agents, config, wrapper, visited,
                       awaiting, calls, events, storeLog>>

ThreadNext ==
    \/ \E threadId \in Threads : \E s \in ThreadStates(threadId) :
           CreateThread(threadId, s)
    \/ \E threadId \in Threads, checkpointId \in ReturnedIds \cup {NoSuchId},
          forceAgent \in {"", "B", "X"} :
           ResumeCall(threadId, checkpointId, forceAgent)
    \/ \E threadId \in Threads, checkpointId \in ReturnedIds \cup {NoSuchId},
          feedback \in Feedbacks :
           SubmitCall(threadId, checkpointId, feedback)
    \/ InvokeLoopExit
    \/ InvokeSkipHuman
    \/ InvokeAgentNotFound
    \/ InvokeCallAgent
    \/ AgentResolves
    \/ AgentThrows

ThreadSpec == ThreadInit /\ [][ThreadNext]_vars

(***************************************************************************)
(* Stream-level specification: GraphExecutor.stream, an async generator.   *)
(* The generator runs only while the consumer is waiting for its next      *)
(* event: at every yield it is suspended (pc "s.yield") until the consumer *)
(* pulls again, and args.resume is where it goes on.  stream reads neither *)
(* waitForHuman nor humanInTheLoop.                                        *)
(***************************************************************************)
AgentStartEvent(agent) == [type |-> "agent_start", agentName |-> agent]
MessageEvent(agent, m) ==
    [type |-> "message", agentName |-> agent, message |-> m]
AgentCompleteEvent(agent) ==
    [type |-> "agent_complete", agentName |-> OrStr(agent, "")]
ErrorEvent(msg) == [type |-> "error", error |-> msg]
CompleteEvent == [type |-> "complete"]

StreamRegistries == {r \in Registries : r["B"].next \in {null, "A", "X"}}

StreamOptionSets == {o \in OptionSets : ~o.waitForHuman}

StreamInit ==
    /\ ContainersUnused
    /\ heap = <<<<"x">>>>
    /\ agents \in StreamRegistries
    /\ \E given \in 0..MaxIterations :
           config = [maxIterations |-> EffectiveMaxIterations(given),
                     humanInTheLoop |-> FALSE]
    /\ wrapper = "none"
    /\ visited = {}
    /\ StoreEmpty
    /\ pc = "idle"
    /\ inputState = NoContainer
    /\ callerView = NoContainer
    /\ startAgent = null
    /\ options = <<>>
    /\ state = NoContainer
    /\ currentAgent = null
    /\ iterations = 0
    /\ awaiting = <<>>
    /\ error = ""
    /\ calls = <<>>
    /\ CallerIdle

\* yield with the generator running on without the consumer.
Yield_Eager(event, resume) ==
    /\ events' = Append(events, event)
    /\ args' = [args EXCEPT !.resume = resume]
    /\ pc' = resume

\* yield event: the event is handed to the consumer and the generator waits.
Yield(event, resume) ==
    /\ events' = Append(events, event)
    /\ args' = [args EXCEPT !.resume = resume]
    /\ pc' = "s.yield"

\* stream(inputState, startAgent, options): the generator object is made and
\* nothing of its body has run.
StreamCall(input, start, opts) ==
    /\ pc = "idle"
    /\ api' = "stream"
    /\ args' = [resume |-> "s.begin"]
    /\ inputState' = input
    /\ startAgent' = start
    /\ options' = opts
    /\ pc' = "s.yield"
    /\ UNCHANGED <<heap, containerVars, executorVars, callerView, state,
                   currentAgent, iterations, awaiting, error, calls, events,
                   storeLog>>

\* The consumer asks for the next event: generator.next().
StreamPull ==
    /\ pc = "s.yield"
    /\ pc' = args.resume
    /\ UNCHANGED <<heap, containerVars, executorVars, inputState, callerView,
                   startAgent, options, state, currentAgent, iterations,
                   awaiting, error, calls, apiVars>>

\* The head of the body, up to the loop.
StreamBegin ==
    /\ pc = "s.begin"
    /\ callerView' = View(inputState, heap)
    /\ state' = clone(inputState)
    /\ currentAgent' = startAgent
    /\ iterations' = 0
    /\ pc' = "s.loop"
    /\ UNCHANGED <<heap, containerVars, executorVars, inputState, startAgent,
                   options, awaiting, error, calls, apiVars>>

\* The loop condition holds: yield agent_start.
StreamAgentStart ==
    /\ pc = "s.loop"
    /\ LoopCondition(currentAgent, iterations, config)
    /\ Yield(AgentStartEvent(currentAgent), "s.try")
    /\ UNCHANGED <<heap, containerVars, executorVars, inputState, callerView,
                   startAgent, options, state, currentAgent, iterations,
                   awaiting, error, calls, api, storeLog>>

\* The loop condition fails: yield complete.
StreamComplete ==
    /\ pc = "s.loop"
    /\ ~LoopCondition(currentAgent, iterations, config)
    /\ Yield(CompleteEvent, "s.return")
    /\ UNCHANGED <<heap, containerVars, executorVars, inputState, callerView,
                   startAgent, options, state, currentAgent, iterations,
                   awaiting, error, calls, api, storeLog>>

\* return state
StreamReturn ==
    /\ pc = "s.return"
    /\ pc' = "returned"
    /\ UNCHANGED <<heap, containerVars, executorVars, inputState, callerView,
                   startAgent, options, state, currentAgent, iterations,
                   awaiting, error, calls, apiVars>>

\* The catch block with the loop going on after the error event.
StreamCatch_GoesOn(msg) ==
    /\ error' = msg
    /\ Yield(ErrorEvent(msg), "s.save")

\* The catch block of stream: yield the error event; the error caught is
\* thrown when the consumer asks for more.
StreamCatch(msg) ==
    /\ error' = msg
    /\ Yield(ErrorEvent(msg), "s.throw")

\* this.agents[currentAgent] is undefined.
StreamAgentNotFound ==
    /\ pc = "s.try"
    /\ currentAgent \notin DOMAIN agents
    /\ StreamCatch(NotFoundError(currentAgent))
    /\ UNCHANGED <<heap, containerVars, executorVars, inputState, callerView,
                   startAgent, options, state, currentAgent, iterations,
                   awaiting, calls, api, storeLog>>

\* messageCountBefore is read and agentFn(state) is called.
StreamCallAgent ==
    /\ pc = "s.try"
    /\ currentAgent \in DOMAIN agents
    /\ awaiting' = [agent |-> currentAgent, cut |-> FALSE,
                    messageCountBefore |-> Len(state.messages)]
    /\ calls' = Append(calls, [agent |-> currentAgent, cut |-> FALSE])
    /\ pc' = "s.await"
    /\ UNCHANGED <<heap, containerVars, executorVars, inputState, callerView,
                   startAgent, options, state, currentAgent, iterations,
                   error, apiVars>>

\* The agent's promise resolves before the timer.  With a container returned
\* the message loop starts at messageCountBefore (i counts from 1 here); with
\* null there is no message loop.
StreamAgentResolves ==
    /\ pc = "s.await"
    /\ ~Throws(agents[awaiting.agent])
    /\ ~TimesOut(agents[awaiting.agent], options)
    /\ LET b == agents[awaiting.agent]
           r == RunAgent(state, heap, awaiting.agent, b)
       IN  /\ state' = r.state
           /\ heap' = r.heap
           /\ awaiting' = [agent |-> awaiting.agent, cut |-> FALSE,
                           i |-> IF b.outcome = "null"
                                 THEN Len(r.state.messages) + 1
                                 ELSE awaiting.messageCountBefore + 1]
    /\ pc' = "s.emit"
    /\ UNCHANGED <<containerVars, executorVars, inputState, callerView,
                   startAgent, options, currentAgent, iterations, error,
                   calls, apiVars>>

\* One turn of the message loop: yield message.
StreamMessage ==
    /\ pc = "s.emit"
    /\ awaiting.i <= Len(state.messages)
    /\ Yield(MessageEvent(currentAgent, state.messages[awaiting.i]), "s.emit")
    /\ awaiting' = [awaiting EXCEPT !.i = @ + 1]
    /\ UNCHANGED <<heap, containerVars, executorVars, inputState, callerView,
                   startAgent, options, state, currentAgent, iterations,
                   error, calls, api, storeLog>>

\* After the message loop: route, and yield agent_complete.
StreamAgentComplete ==
    /\ pc = "s.emit"
    /\ awaiting.i > Len(state.messages)
    /\ currentAgent' = getNextAgent(state)
    /\ Yield(AgentCompleteEvent(getNextAgent(state)), "s.save")
    /\ UNCHANGED <<heap, containerVars, executorVars, inputState, callerView,
                   startAgent, options, state, iterations, awaiting, error,
                   calls, api, storeLog>>

\* The end of the loop body: checkpoint, count.
StreamSave ==
    /\ pc = "s.save"
    /\ IF options.checkpoint /\ options.threadId # ""
       THEN LET saved == saveCheckpoint(checkpoints, threadIndex,
                                        options.threadId, state, heap,
                                        idSource + 1, 0)
            IN  /\ checkpoints' = saved.checkpoints
                /\ threadIndex' = saved.threadIndex
                /\ idSource' = idSource + 1
       ELSE UNCHANGED <<checkpoints, threadIndex, idSource>>
    /\ iterations' = iterations + 1
    /\ awaiting' = <<>>
    /\ pc' = "s.loop"
    /\ UNCHANGED <<heap, containerVars, agents, config, wrapper, visited,
                   inputState, callerView, startAgent, options, state,
                   currentAgent, error, calls, apiVars>>

\* The agent's promise rejects.
StreamAgentThrows ==
    /\ pc = "s.await"
    /\ Throws(agents[awaiting.agent])
    /\ StreamCatch(Thrown(agents[awaiting.agent]))
    /\ UNCHANGED <<heap, containerVars, executorVars, inputState, callerView,
                   startAgent, options, state, currentAgent, iterations,
                   awaiting, calls, api, storeLog>>

\* The timer wins the race.
StreamAgentTimesOut ==
    /\ pc = "s.await"
    /\ ~Throws(agents[awaiting.agent])
    /\ TimesOut(agents[awaiting.agent], options)
    /\ StreamCatch(ExecutionTimeout)
    /\ UNCHANGED <<heap, containerVars, executorVars, inputState, callerView,
                   startAgent, options, state, currentAgent, iterations,
                   awaiting, calls, api, storeLog>>

\* throw error: the generator ends and the consumer's next() rejects.
StreamThrow ==
    /\ pc = "s.throw"
    /\ pc' = "failed"
    /\ UNCHANGED <<heap, containerVars, executorVars, inputState, callerView,
                   startAgent, options, state, currentAgent, iterations,
                   awaiting, error, calls, apiVars>>

StreamNext ==
    \/ \E input \in InputStates, start \in Starts, opts \in StreamOptionSets :
           StreamCall(input, start, opts)
    \/ StreamPull
    \/ StreamBegin
    \/ StreamAgentStart
    \/ StreamComplete
    \/ StreamReturn
    \/ StreamAgentNotFound
    \/ StreamCallAgent
    \/ StreamAgentResolves
    \/ StreamMessage
    \/ StreamAgentComplete
    \/ StreamSave
    \/ StreamAgentThrows
    \/ StreamAgentTimesOut
    \/ StreamThrow

StreamSpec == StreamInit /\ [][StreamNext]_vars

(***************************************************************************)
(* invoke and stream side by side: a call of invoke, and then the same     *)
(* call made through stream and consumed to its end, on an executor, a     *)
(* store and an input equal to those invoke started from.  What invoke did *)
(* is kept in args.invoke.                                                 *)
(***************************************************************************)
ExecOptionSets == {o \in OptionSets : o.checkpoint => o.threadId # ""}

\* The documents of the checkpoints a run saved on its thread.
SavedStates(cps, opts) ==
    LET held == getCheckpoints(cps, opts.threadId)
    IN  [i \in 1..Len(held) |-> held[i].state]

StreamSame ==
    /\ api = "invoke"
    /\ pc \in {"returned", "failed"}
    /\ api' = "stream"
    /\ args' = [resume |-> "s.begin",
                invoke |-> [pc |-> pc,
                            state |-> View(state, heap),
                            calls |-> calls,
                            saved |-> SavedStates(checkpoints, options),
                            error |-> error]]
    /\ heap' = <<<<"x">>>>
    /\ checkpoints' = EmptyMap
    /\ threadIndex' = EmptyMap
    /\ idSource' = 0
    /\ calls' = <<>>
    /\ error' = ""
    /\ awaiting' = <<>>
    /\ pc' = "s.yield"
    /\ UNCHANGED <<containerVars, agents, config, wrapper, visited,
                   inputState, callerView, startAgent, options, state,
                   currentAgent, iterations, events, storeLog>>

ExecNext ==
    \/ \E input \in InputStates, start \in Starts, opts \in ExecOptionSets :
           InvokeCall(input, start, opts)
    \/ InvokeLoopExit
    \/ InvokePause
    \/ InvokeSkipHuman
    \/ InvokeAgentNotFound
    \/ InvokeCallAgent
    \/ AgentResolves
    \/ AgentThrows
    \/ AgentTimesOut
    \/ StreamSame
    \/ StreamPull
    \/ StreamBegin
    \/ StreamAgentStart
    \/ StreamComplete
    \/ StreamReturn
    \/ StreamAgentNotFound
    \/ StreamCallAgent
    \/ StreamAgentResolves
    \/ StreamMessage
    \/ StreamAgentComplete
    \/ StreamSave
    \/ StreamAgentThrows
    \/ StreamAgentTimesOut
    \/ StreamThrow

ExecSpec == StreamInit /\ [][ExecNext]_vars

(***************************************************************************)
(* An executor built by createRoutingGraph, run with invoke.               *)
(***************************************************************************)
RoutingInit ==
    /\ ContainersUnused
    /\ heap = <<<<"x">>>>
    /\ agents \in StreamRegistries
    /\ \E given \in 0..MaxIterations :
           config = [maxIterations |-> EffectiveMaxIterations(given),
                     humanInTheLoop |-> FALSE]
    /\ wrapper = "routing"
    /\ visited = {}
    /\ StoreEmpty
    /\ pc = "idle"
    /\ inputState = NoContainer
    /\ callerView = NoContainer
    /\ startAgent = null
    /\ options = <<>>
    /\ state = NoContainer
    /\ currentAgent = null
    /\ iterations = 0
    /\ awaiting = <<>>
    /\ error = ""
    /\ calls = <<>>
    /\ CallerIdle

RoutingNext ==
    \/ \E input \in InputStates, start \in Starts, opts \in ExecOptionSets :
           InvokeCall(input, start, opts)
    \/ InvokeLoopExit
    \/ InvokePause
    \/ InvokeSkipHuman
    \/ InvokeAgentNotFound
    \/ InvokeCallAgent
    \/ AgentResolves
    \/ AgentThrows
    \/ AgentTimesOut

RoutingSpec == RoutingInit /\ [][RoutingNext]_vars

(***************************************************************************)
(* createParallelGraph (src/lib/graph.ts): the agent registered under      *)
(* "__parallel__", called on a container whose metadata parallelTargets    *)
(* holds the target names.  The branches are called in target order, each  *)
(* on a clone, and complete in any order; an agent's changes are made when *)
(* its call completes.                                                     *)
(***************************************************************************)
ParallelBehavioursA ==
    {b \in [next : {null}, touch : BOOLEAN,
            outcome : {"state", "null", "fresh", "throw"},
            says : {"A", "same"}] : Throws(b) => ~b.touch}

ParallelBehavioursB ==
    [next : {null}, touch : BOOLEAN, outcome : {"state"},
     says : {"B", "same"}]

ParallelRegistries ==
    {[n \in {"A", "B", "C"} |->
         IF n = "A" THEN a ELSE IF n = "B" THEN b ELSE BehaviourC] :
        a \in ParallelBehavioursA, b \in ParallelBehavioursB}

ParallelTargetLists ==
    {<<>>, <<"A">>, <<"A", "B">>, <<"B", "A">>, <<"A", "A">>,
     <<"A", "X", "B">>}

ParallelInputs ==
    {[EmptyAgentState EXCEPT !.messages = ms, !.metadata["data"] = Ref(1)] :
        ms \in {<<UserMsg("Hello")>>,
                <<UserMsg("same"), AssistantMsg("same")>>}}

ParallelInit ==
    /\ ContainersUnused
    /\ heap = <<<<"x">>>>
    /\ agents \in ParallelRegistries
    /\ config = [maxIterations |-> DefaultMaxIterations,
                 humanInTheLoop |-> FALSE]
    /\ wrapper = "parallel"
    /\ visited = {}
    /\ StoreEmpty
    /\ pc = "idle"
    /\ inputState = NoContainer
    /\ callerView = NoContainer
    /\ startAgent = null
    /\ options = <<>>
    /\ state = NoContainer
    /\ currentAgent = null
    /\ iterations = 0
    /\ awaiting = <<>>
    /\ error = ""
    /\ calls = <<>>
    /\ CallerIdle

\* state.getMetadata("parallelTargets") || []
TargetsOf(s, h) ==
    LET v == getMetadata(s, "parallelTargets")
    IN  IF v.t = "object" THEN h[v.a] ELSE <<>>

\* targets.map((name) => agents[name]?.(state.clone())): one branch per
\* target; a name that is not registered gives undefined.
Branch(s, name) ==
    [name |-> name, given |-> clone(s),
     status |-> IF name \in DOMAIN agents THEN "pending" ELSE "undefined"]

\* parallelAgent(state) up to the await of Promise.all.
ParallelCall(input, targets) ==
    /\ pc = "idle"
    /\ api' = "parallel"
    /\ heap' = Append(heap, targets)
    /\ LET s == setMetadata(input, "parallelTargets", Ref(Len(heap) + 1))
           names == TargetsOf(s, heap')
       IN  /\ state' = s
           /\ args' = [pre |-> View(s, heap'),
                       heap |-> heap',
                       branches |-> [i \in 1..Len(names) |->
                                        Branch(s, names[i])]]
           /\ calls' = SelectSeq([i \in 1..Len(names) |->
                                     [agent |-> names[i], cut |-> FALSE]],
                                 LAMBDA c : c.agent \in DOMAIN agents)
    /\ currentAgent' = "__parallel__"
    /\ pc' = "p.await"
    /\ UNCHANGED <<containerVars, executorVars, inputState, callerView,
                   startAgent, options, iterations, awaiting, error, events,
                   storeLog>>

\* The call of branch i completes: its result is a container or null.
BranchResolves(i) ==
    /\ pc = "p.await"
    /\ i \in DOMAIN args.branches
    /\ args.branches[i].status = "pending"
    /\ LET br == args.branches[i]
           b == agents[br.name]
           r == RunAgent(br.given, heap, br.name, b)
       IN  /\ ~Throws(b)
           /\ heap' = r.heap
           /\ args' = [args EXCEPT !.branches[i] =
                          [name |-> br.name, given |-> br.given,
                           status |-> IF b.outcome = "null" THEN "null"
                                      ELSE "state",
                           result |-> r.state,
                           seen |-> View(r.state, r.heap)]]
    /\ UNCHANGED <<containerVars, executorVars, callVars, api, events,
                   storeLog>>

\* The call of branch i rejects: Promise.all rejects and so does the
\* parallel agent.
BranchThrows(i) ==
    /\ pc = "p.await"
    /\ i \in DOMAIN args.branches
    /\ args.branches[i].status = "pending"
    /\ Throws(agents[args.branches[i].name])
    /\ error' = Thrown(agents[args.branches[i].name])
    /\ pc' = "failed"
    /\ UNCHANGED <<heap, containerVars, executorVars, inputState, callerView,
                   startAgent, options, state, currentAgent, iterations,
                   awaiting, calls, apiVars>>

\* The inner loop of the merge with every message of the branch appended.
MergeMessages_All(merged, msgs) ==
    [merged EXCEPT !.messages = @ \o msgs]

\* The inner loop of the merge: a message is added when no message of the
\* merged container has its content.
RECURSIVE MergeMessages(_, _)
MergeMessages(merged, msgs) ==
    IF msgs = <<>> THEN merged
    ELSE LET msg == Head(msgs)
             some == \E i \in 1..Len(merged.messages) :
                         merged.messages[i].content = msg.content
         IN  MergeMessages(IF some THEN merged ELSE addMessage(merged, msg),
                           Tail(msgs))

\* The outer loop of the merge, over the results in target order.
RECURSIVE MergeResults(_, _)
MergeResults(merged, results) ==
    IF results = <<>> THEN merged
    ELSE LET result == Head(results)
         IN  MergeResults(IF result.status = "state"
                          THEN MergeMessages(merged, result.result.messages)
                          ELSE merged,
                          Tail(results))

\* Promise.all has resolved: merge, clear the targets, return.
ParallelMerge ==
    /\ pc = "p.await"
    /\ \A i \in DOMAIN args.branches : args.branches[i].status # "pending"
    /\ LET mergedState == MergeResults(clone(state), args.branches)
       IN  /\ heap' = Append(heap, <<>>)
           /\ state' = setMetadata(mergedState, "parallelTargets",
                                   Ref(Len(heap) + 1))
    /\ pc' = "returned"
    /\ UNCHANGED <<containerVars, executorVars, inputState, callerView,
                   startAgent, options, currentAgent, iterations, awaiting,
                   error, calls, apiVars>>

\* The branches of the fan-out in progress.
Branches == IF pc = "p.await" THEN DOMAIN args.branches ELSE {}

ParallelNext ==
    \/ \E input \in ParallelInputs, targets \in ParallelTargetLists :
           ParallelCall(input, targets)
    \/ \E i \in Branches : BranchResolves(i)
    \/ \E i \in Branches : BranchThrows(i)
    \/ ParallelMerge

ParallelSpec == ParallelInit /\ [][ParallelNext]_vars

(***************************************************************************)
(* Properties of the State Container.                                      *)
(***************************************************************************)
RoundTripFields(s) ==
    [messages |-> s.messages, nextAgent |-> s.nextAgent,
     metadata |-> s.metadata, pendingApproval |-> s.pendingApproval,
     approvalCount |-> s.approvalCount, maxApprovals |-> s.maxApprovals]

\* C7: deserialize(serialize(s)) has the same messages, nextAgent, metadata,
\* pendingApproval, approvalCount and maxApprovals as s, for every container s
\* (maxApprovals 0 included).
C7_RoundTripIdentical ==
    last.op = "deserialize" =>
        RoundTripFields(View(objs[Len(objs)], heap))
            = RoundTripFields(last.pre[last.target])

ChangeOps == {"addMessage", "setMetadata", "changeValue"}

\* C8: after a change to the messages or metadata of a clone (a message
\* appended, a key set, a value held under a key changed), the container it
\* was cloned from reads as before the change; and the same with the two
\* exchanged.
C8_CloneIndependent ==
    \A c \in 1..Len(objs) :
        (parent[c].via = "clone" /\ last.op \in ChangeOps) =>
            /\ last.target = c =>
                   View(objs[parent[c].from], heap) = last.pre[parent[c].from]
            /\ last.target = parent[c].from =>
                   View(objs[c], heap) = last.pre[c]

\* C9: approve(true, feedback?) leaves pendingApproval false and nextAgent
\* null, whatever the approvalCount, maxApprovals and nextAgent were.
C9_ApproveTrueTerminal ==
    (last.op = "approve" /\ last.arg[1]) =>
        /\ objs[last.target].pendingApproval = FALSE
        /\ objs[last.target].nextAgent = null

C9_Witness ==
    /\ last.op = "approve" /\ last.arg[1]
    /\ last.pre[last.target].pendingApproval
    /\ last.pre[last.target].nextAgent = HUMAN
    /\ objs[last.target].approvalCount < objs[last.target].maxApprovals
    /\ objs[last.target].nextAgent = null

\* C10: approve(false) adds exactly 1 to approvalCount and clears
\* pendingApproval; nextAgent becomes null exactly when the new approvalCount
\* is >= maxApprovals, and is otherwise what it was before the call.
C10_ApproveFalse ==
    (last.op = "approve" /\ ~last.arg[1]) =>
        LET pre == last.pre[last.target]
            post == objs[last.target]
        IN  /\ post.approvalCount = pre.approvalCount + 1
            /\ post.pendingApproval = FALSE
            /\ post.nextAgent = IF post.approvalCount >= post.maxApprovals
                                THEN null ELSE pre.nextAgent

\* A rejection that reaches the cap exactly, on a container routed elsewhere.
C10_Witness ==
    /\ last.op = "approve" /\ ~last.arg[1]
    /\ last.pre[last.target].nextAgent = HUMAN
    /\ last.pre[last.target].approvalCount + 1 = objs[last.target].maxApprovals
    /\ objs[last.target].nextAgent = null

\* C22: in every container that the operations of the State Container
\* (constructor, setNextAgent, requestApproval, approve, deserialize, clone)
\* produce, pendingApproval = TRUE implies that nextAgent is the sentinel
\* "__human__".
C22_PendingImpliesSentinel ==
    \A o \in 1..Len(objs) :
        objs[o].pendingApproval => objs[o].nextAgent = HUMAN

(***************************************************************************)
(* Properties of the Checkpoint Store.                                     *)
(***************************************************************************)
LogIndexes(op, threadId) ==
    {i \in 1..Len(storeLog) :
        storeLog[i].op = op /\ storeLog[i].threadId = threadId}

\* The position in the log of the last deleteThread(threadId), 0 when none.
LastDelete(threadId) ==
    LET ds == LogIndexes("deleteThread", threadId)
    IN  IF ds = {} THEN 0 ELSE CHOOSE i \in ds : \A j \in ds : j <= i

\* The saves on the thread since it was last deleted, in the order made.
SavesOn(threadId) ==
    SelectSeq(storeLog, LAMBDA e : /\ e.op = "saveCheckpoint"
                                   /\ e.threadId = threadId
                                   /\ e.n > LastDelete(threadId))

LastLogged == storeLog[Len(storeLog)]

\* C11: for every thread, the ids its saves returned are pairwise distinct,
\* getCheckpoints lists exactly the checkpoints of those ids in the order
\* saved, and a loadLatestCheckpoint just made returned the state of the last
\* save (null when the thread has none).
C11_SavesDistinctOrdered ==
    \A t \in Threads :
        LET sv == SavesOn(t)
            got == getCheckpoints(checkpoints, t)
        IN  /\ \A i, j \in 1..Len(sv) : i # j => sv[i].ret # sv[j].ret
            /\ [i \in 1..Len(got) |-> got[i].id]
                   = [i \in 1..Len(sv) |-> sv[i].ret]
            /\ (/\ Len(storeLog) > 0
                /\ LastLogged.op = "loadLatestCheckpoint"
                /\ LastLogged.threadId = t)
               => LastLogged.ret = IF Len(sv) = 0 THEN <<>>
                                   ELSE <<sv[Len(sv)].arg>>

\* The thread a checkpoint id was returned for.
ThreadOf(checkpointId) == checkpointId[2]

\* The load asked for a thread that does not exist, an id that does not
\* exist, or an id that another thread holds.
MissingLoad(e) ==
    /\ e.op = "loadCheckpoint"
    /\ \/ e.threadId \notin listThreads(e.pre.checkpoints)
       \/ \A t \in DOMAIN e.pre.checkpoints :
              \A i \in 1..Len(e.pre.checkpoints[t]) :
                  e.pre.checkpoints[t][i].id # e.arg
       \/ \A i \in 1..Len(getCheckpoints(e.pre.checkpoints, e.threadId)) :
              e.pre.checkpoints[e.threadId][i].id # e.arg

\* C12: loadCheckpoint(threadId, checkpointId) returns null and leaves the
\* store as it was when the thread does not exist, when the id does not
\* exist, and when the id exists but belongs to a different thread.
C12_LoadMissingIsNull ==
    (Len(storeLog) > 0 /\ MissingLoad(LastLogged)) =>
        /\ LastLogged.ret = <<>>
        /\ Store = LastLogged.pre

\* A load by an id that exists, asked of another thread that exists too.
C12_Witness ==
    /\ Len(storeLog) > 0
    /\ LastLogged.op = "loadCheckpoint"
    /\ LastLogged.arg \in ReturnedIds
    /\ ThreadOf(LastLogged.arg) # LastLogged.threadId
    /\ ThreadOf(LastLogged.arg) \in listThreads(checkpoints)
    /\ LastLogged.threadId \in listThreads(checkpoints)
    /\ LastLogged.ret = <<>>

\* The thread was created by a save and not deleted since, before call n.
Existed(threadId, n) ==
    \E i \in LogIndexes("saveCheckpoint", threadId) :
        /\ i < n
        /\ \A d \in LogIndexes("deleteThread", threadId) : d < i \/ d >= n

\* C13: deleteThread(threadId) returns true exactly when the thread had been
\* created by a save and not yet deleted; from then until the next save on
\* it, getCheckpoints is empty, listThreads does not contain it, and
\* loadCheckpoint (by any id) and loadLatestCheckpoint return null; and the
\* next save on it starts a thread holding only the new checkpoint.
C13_DeleteThread ==
    \A t \in Threads : \A d \in LogIndexes("deleteThread", t) :
        /\ storeLog[d].ret = Existed(t, d)
        /\ (d = LastDelete(t) /\ Len(SavesOn(t)) = 0) =>
               /\ getCheckpoints(checkpoints, t) = <<>>
               /\ t \notin listThreads(checkpoints)
               /\ (/\ LastLogged.threadId = t
                   /\ LastLogged.op \in {"loadCheckpoint",
                                         "loadLatestCheckpoint"})
                  => LastLogged.ret = <<>>
        /\ (d = LastDelete(t) /\ Len(SavesOn(t)) = 1) =>
               /\ Len(getCheckpoints(checkpoints, t)) = 1
               /\ getCheckpoints(checkpoints, t)[1].id = SavesOn(t)[1].ret

\* A thread saved to, deleted (true), and asked for its old checkpoint.
C13_Witness ==
    /\ Len(storeLog) = 3
    /\ storeLog[1].op = "saveCheckpoint"
    /\ storeLog[2].op = "deleteThread" /\ storeLog[2].ret = TRUE
    /\ storeLog[2].threadId = storeLog[1].threadId
    /\ storeLog[3].op = "loadCheckpoint"
    /\ storeLog[3].threadId = storeLog[1].threadId
    /\ storeLog[3].arg = storeLog[1].ret
    /\ storeLog[3].ret = <<>>

\* A thread saved to, deleted, and saved to again.
C13_WitnessNewThread ==
    /\ Len(storeLog) = 3
    /\ storeLog[1].op = "saveCheckpoint"
    /\ storeLog[2].op = "deleteThread" /\ storeLog[2].ret = TRUE
    /\ storeLog[2].threadId = storeLog[1].threadId
    /\ storeLog[3].op = "saveCheckpoint"
    /\ storeLog[3].threadId = storeLog[1].threadId
    /\ Len(getCheckpoints(checkpoints, storeLog[1].threadId)) = 1

\* The saves that returned checkpointId on the thread since its last delete.
SavesReturning(threadId, checkpointId) ==
    SelectSeq(SavesOn(threadId), LAMBDA e : e.ret = checkpointId)

\* C23: a checkpoint is a snapshot.  loadCheckpoint(threadId, id) returns the
\* state as it was at the save that returned id, whatever was saved or loaded
\* in between; and every operation other than deleteThread leaves the
\* checkpoints held on every thread as they are, a save adding one at the
\* end of its thread.
C23_Snapshot ==
    /\ [](\A i \in 1..Len(storeLog) :
             (/\ storeLog[i].op = "loadCheckpoint"
              /\ i = Len(storeLog)
              /\ SavesReturning(storeLog[i].threadId, storeLog[i].arg)
                     # <<>>)
                => \A k \in 1..Len(SavesReturning(storeLog[i].threadId,
                                                  storeLog[i].arg)) :
                       storeLog[i].ret
                           = <<SavesReturning(storeLog[i].threadId,
                                              storeLog[i].arg)[k].arg>>)
    /\ [][\A t \in Threads :
             LET before == getCheckpoints(checkpoints, t)
                 after == getCheckpoints(checkpoints', t)
                 e == storeLog'[Len(storeLog')]
             IN  (e.op = "deleteThread" /\ e.threadId = t)
                 \/ /\ Len(after) >= Len(before)
                    /\ SubSeq(after, 1, Len(before)) = before
                    /\ Len(after) > Len(before)
                          => /\ e.op = "saveCheckpoint" /\ e.threadId = t
                             /\ Len(after) = Len(before) + 1]_vars

(***************************************************************************)
(* Properties of invoke.                                                   *)
(***************************************************************************)
InLoop == pc \in {"loop", "await"}
Called(i) == agents[calls[i].agent]
LastCall == calls[Len(calls)]

\* C1: every invoke call terminates, provided every agent call completes or
\* times out: while the call is in its loop, the loop has a step that changes
\* the state of the call (a loop that can only repeat its present state stays
\* in it forever).
C1_InvokeTerminates == InLoop => ENABLED <<Next>>_vars

\* C2: one invoke call never calls agents more than maxIterations times; with
\* an agent that always routes to itself, invoke does not fail, calls it
\* exactly maxIterations times (its metadata counter says so too) and returns
\* with nextAgent still naming it.
C2_IterationCap ==
    /\ pc # "idle" => Len(calls) <= config.maxIterations
    /\ (/\ pc \in {"returned", "failed"}
        /\ wrapper = "none" /\ startAgent = "A" /\ agents["A"].next = "A"
        /\ ~Throws(agents["A"]) /\ ~TimesOut(agents["A"], options))
       => /\ pc = "returned"
          /\ Len(calls) = config.maxIterations
          /\ \A i \in 1..Len(calls) : calls[i].agent = "A"
          /\ getNextAgent(state) = "A"
          /\ (agents["A"].touch /\ agents["A"].outcome # "fresh")
             => getMetadata(state, "iterations") = Num(config.maxIterations)

C2_Witness ==
    /\ pc = "returned" /\ wrapper = "none" /\ startAgent = "A"
    /\ agents["A"].next = "A" /\ agents["A"].touch
    /\ agents["A"].outcome = "state"
    /\ config.maxIterations = MaxIterations
    /\ Len(calls) = MaxIterations
    /\ getMetadata(state, "iterations") = Num(MaxIterations)
    /\ getNextAgent(state) = "A"

\* C3: with waitForHuman true, once an agent call has left the container
\* routed to the sentinel, the next step of invoke is to return that very
\* container, with no further agent call; and when that agent called
\* requestApproval(), the container returned has pendingApproval true.
C3_HumanPause ==
    /\ [][(/\ pc = "loop" /\ options.waitForHuman /\ Len(calls) > 0
           /\ getNextAgent(state) = HUMAN)
          => (pc' = "returned" /\ state' = state /\ calls' = calls)]_vars
    /\ [](/\ pc = "returned" /\ options.waitForHuman /\ Len(calls) > 0
          /\ getNextAgent(state) = HUMAN
          /\ ~LastCall.cut /\ Called(Len(calls)).next = APPROVAL
          => isWaitingForApproval(state))

C3_Witness ==
    /\ pc = "returned" /\ options.waitForHuman /\ ~config.humanInTheLoop
    /\ Len(calls) = 1 /\ iterations < config.maxIterations
    /\ Called(1).next = APPROVAL
    /\ getNextAgent(state) = HUMAN /\ isWaitingForApproval(state)

\* C4: A routes to B and B to A, under createCyclicGraph, from a fresh
\* container on a fresh router and with the default iteration cap: invoke
\* returns with nextAgent null and a system message noting the cycle.
C4_CycleBroken ==
    (/\ pc = "returned" /\ wrapper = "cyclic" /\ startAgent = "A"
     /\ config.maxIterations = DefaultMaxIterations
     /\ agents["A"].next = "B" /\ agents["A"].outcome = "state"
     /\ agents["B"].next = "A")
    => /\ getNextAgent(state) = null
       /\ \E i \in 1..Len(state.messages) : state.messages[i].role = "system"

\* The agent's promise is still pending when the timer of the timeout option
\* fires.
ExceedsTimeoutOption(b) ==
    ~Throws(b) /\ options.timeout # 0 /\ Duration(b) > options.timeout

\* C5: when an agent does not complete within the timeout option, invoke
\* fails with the error "Agent '<name>' timed out" naming that agent, and that
\* agent call is the last one of the invoke call.
C5_TimeoutAborts ==
    pc # "idle" =>
        \A i \in 1..Len(calls) :
            (~calls[i].cut /\ ExceedsTimeoutOption(Called(i))) =>
                /\ i = Len(calls)
                /\ pc \in {"await", "failed"}
                /\ pc = "failed" => error = TimeoutError(calls[i].agent)

C5_Witness ==
    /\ pc = "failed" /\ Len(calls) = 1
    /\ options.timeout = ShortTimeoutMs
    /\ Called(1).outcome = "slow"
    /\ error = "Agent 'A' timed out"

\* C6: the container the caller passed to invoke reads, during and after the
\* call, as it did when invoke was called: messages, nextAgent, metadata,
\* pendingApproval and approvalCount.
C6_CallerUntouched ==
    pc \in {"loop", "await", "returned", "failed"} =>
        View(inputState, heap) = callerView

\* The chain the registry forms from agent A on: each agent routes to the
\* following one and the last to null; <<>> when it forms none.
Chain ==
    IF agents["A"].next = null THEN <<"A">>
    ELSE IF agents["A"].next # "B" THEN <<>>
    ELSE IF agents["B"].next = null THEN <<"A", "B">>
    ELSE IF agents["B"].next = "C" THEN <<"A", "B", "C">>
    ELSE <<>>

\* invoke was called at the head of a chain of agents each of which appends
\* its message to the container it is given and completes in time.
ChainRun ==
    /\ api = "invoke" /\ startAgent = "A"
    /\ DOMAIN agents = {"A", "B", "C"}
    /\ Chain # <<>>
    /\ agents["A"].outcome \in {"state", "null", "slow"}
    /\ ~TimesOut(agents["A"], options)

ChainOutcome ==
    /\ pc = "returned"
    /\ [i \in 1..Len(calls) |-> calls[i].agent] = Chain
    /\ \A i \in 1..Len(calls) : ~calls[i].cut
    /\ state.messages
           = callerView.messages
               \o [i \in 1..Len(Chain) |-> AssistantMsg(Chain[i])]
    /\ getNextAgent(state) = null

\* C14 as stated: invoke from the first agent of a chain calls each agent once
\* in chain order and returns the initial messages followed by one message per
\* agent, with nextAgent null.
C14_ChainAsStated ==
    (pc \in {"returned", "failed"} /\ ChainRun) => ChainOutcome

\* C14: the same for a chain that is no longer than the executor's
\* maxIterations (and an initial container that is not waiting for approval).
C14_Chain ==
    (/\ pc \in {"returned", "failed"} /\ ChainRun
     /\ Len(Chain) <= config.maxIterations)
    => ChainOutcome

\* researcher -> writer -> critic: one user message and three agents.
C14_Witness ==
    /\ pc = "returned" /\ ChainRun /\ Len(Chain) = 3
    /\ Len(calls) = 3
    /\ Len(state.messages) = 4
    /\ getNextAgent(state) = null

HitlEntries == {"hitl.invoke", "hitl.invokeWithFeedback"}

\* C15: a call of the invoke or invokeWithFeedback of a
\* createHumanInTheLoopGraph graph does not stay in the executor's loop; its
\* invoke returns after one agent call, with the agent's message appended and
\* the container waiting for approval; invokeWithFeedback returns that
\* container with approve(feedback.approved, feedback.feedback) applied.
C15_HitlGraphReturns ==
    (api \in HitlEntries /\ startAgent # HUMAN) =>
        /\ InLoop => ENABLED <<Next>>_vars
        /\ pc = "returned" =>
               /\ Len(calls) = 1
               /\ isWaitingForApproval(state)
               /\ state.messages
                      = Append(callerView.messages,
                               AssistantMsg(HitlAgent.says))
        /\ pc = "done" =>
               /\ ~isWaitingForApproval(state)
               /\ state.approvalCount = 1

\* C20: an error thrown by an agent leaves invoke with the message it was
\* thrown with, and the call that threw is the last agent call of invoke.
C20_AgentErrorUnchanged ==
    pc # "idle" =>
        \A i \in 1..Len(calls) :
            (~calls[i].cut /\ Throws(Called(i))) =>
                /\ i = Len(calls)
                /\ pc \in {"await", "failed"}
                /\ pc = "failed" => error = Thrown(Called(i))

\* Checkpointing is on for the call.
Checkpointing == options.checkpoint /\ options.threadId # ""

C28_NullKeepsState ==
    [][(pc = "await" /\ pc' = "loop" /\ ~awaiting.cut) =>
          LET b == agents[awaiting.agent]
              given == AgentEffects(state, heap, awaiting.agent, b)
              made == AgentEffects(EmptyAgentState, heap, awaiting.agent, b)
          IN  /\ b.outcome \in {"null", "state", "slow"}
                    => state' = given.state /\ heap' = given.heap
              /\ b.outcome = "fresh"
                    => state' = made.state /\ heap' = made.heap
              /\ currentAgent' = getNextAgent(state')
              /\ iterations' = iterations + 1
              /\ Checkpointing
                    => Len(getCheckpoints(checkpoints', options.threadId))
                           = Len(getCheckpoints(checkpoints,
                                                options.threadId)) + 1]_vars

\* A returned null after routing to B: B was called next, on the container A
\* had been given, and both calls were checkpointed.
C28_Witness ==
    /\ pc = "returned" /\ api = "invoke" /\ wrapper = "none" /\ Checkpointing
    /\ agents["A"].outcome = "null" /\ agents["A"].next = "B"
    /\ Len(calls) = 2 /\ calls[1].agent = "A" /\ calls[2].agent = "B"
    /\ iterations = 2
    /\ Len(state.messages) = 3
    /\ Len(getCheckpoints(checkpoints, options.threadId)) = 2

\* A returned new container took the place of the executor's.
C28_WitnessReplaced ==
    /\ pc = "returned" /\ api = "invoke" /\ wrapper = "none"
    /\ agents["A"].outcome = "fresh" /\ agents["A"].next = "B"
    /\ Len(calls) = 2 /\ calls[2].agent = "B"
    /\ state.messages = <<AssistantMsg("A"), AssistantMsg("B")>>

(***************************************************************************)
(* Properties of resumeFromCheckpoint and submitHumanFeedback.             *)
(***************************************************************************)
\* The checkpoints the thread held when the call was made.
HeldBefore(threadId) == getCheckpoints(args.pre.checkpoints, threadId)

\* The positions, in the thread named in the call, of the id named in it.
Referenced ==
    {i \in 1..Len(HeldBefore(args.threadId)) :
        HeldBefore(args.threadId)[i].id = args.checkpointId}

\* What the store gave back for the pair named in the call.
LoadedForCall ==
    loadCheckpoint(args.pre.checkpoints, args.threadId, args.checkpointId,
                   args.heap)

\* The thread named in the call holds what it held, then n more checkpoints;
\* every other thread holds what it held.
Appended(n) ==
    /\ \A t \in Threads \ {args.threadId} :
           getCheckpoints(checkpoints, t) = HeldBefore(t)
    /\ Len(getCheckpoints(checkpoints, args.threadId))
           = Len(HeldBefore(args.threadId)) + n
    /\ SubSeq(getCheckpoints(checkpoints, args.threadId), 1,
              Len(HeldBefore(args.threadId))) = HeldBefore(args.threadId)

\* C16: resumeFromCheckpoint fails with the checkpoint-not-found error when
\* the thread does not hold the id; fails with the no-next-agent error when
\* no forceAgent is given and the stored nextAgent is null; and otherwise is
\* in invoke, on the state loaded, started at forceAgent if given and at the
\* stored nextAgent if not, every completed agent call of the run having
\* appended one checkpoint to the thread named.
C16_Resume ==
    api = "resumeFromCheckpoint" =>
        IF Referenced = {}
        THEN /\ pc = "failed"
             /\ error = CheckpointNotFoundError(args.checkpointId,
                                                args.threadId)
             /\ calls = <<>> /\ Appended(0)
        ELSE LET stored == HeldBefore(args.threadId)[
                               CHOOSE i \in Referenced : TRUE].state
             IN  IF args.forceAgent = "" /\ stored.nextAgent = null
                 THEN /\ pc = "failed" /\ error = NoNextAgentError
                      /\ calls = <<>> /\ Appended(0)
                 ELSE /\ startAgent = IF args.forceAgent # ""
                                      THEN args.forceAgent
                                      ELSE stored.nextAgent
                      /\ callerView = View(LoadedForCall.state,
                                           LoadedForCall.heap)
                      /\ callerView.messages = stored.messages
                      /\ options.threadId = args.threadId
                      /\ pc = "failed" => error # NoNextAgentError
                      /\ Appended(iterations)

\* A resumed run that was forced to B although the checkpoint says A, and
\* that appended to the thread.
C16_Witness ==
    /\ api = "resumeFromCheckpoint" /\ pc = "returned"
    /\ args.forceAgent = "B" /\ inputState.nextAgent = "A"
    /\ Len(calls) > 0 /\ calls[1].agent = "B"
    /\ Len(getCheckpoints(checkpoints, args.threadId))
           > Len(HeldBefore(args.threadId))

\* C17: submitHumanFeedback on a missing thread/id pair fails with the
\* checkpoint-not-found error and leaves the store alone.  On an existing
\* one, the thread holds what it held, unchanged, then one checkpoint of the
\* loaded state with approve(approved, message) applied, then one checkpoint
\* per completed agent call; invoke is entered exactly when the nextAgent
\* after approve is neither null nor the sentinel, and otherwise the updated
\* state is returned with no agent called.
C17_Feedback ==
    api = "submitHumanFeedback" =>
        IF Referenced = {}
        THEN /\ pc = "failed"
             /\ error = CheckpointNotFoundError(args.checkpointId,
                                                args.threadId)
             /\ calls = <<>> /\ Appended(0)
        ELSE LET updated == approve(LoadedForCall.state,
                                    args.feedback.approved,
                                    args.feedback.feedback)
                 now == getCheckpoints(checkpoints, args.threadId)
                 new == now[Len(HeldBefore(args.threadId)) + 1]
             IN  /\ Appended(1 + iterations)
                 /\ RoundTripFields(new.state)
                        = RoundTripFields(View(updated, LoadedForCall.heap))
                 /\ IF updated.nextAgent \in {null, HUMAN}
                    THEN /\ pc = "returned" /\ calls = <<>>
                         /\ iterations = 0
                         /\ View(state, heap)
                                = View(updated, LoadedForCall.heap)
                    ELSE /\ startAgent = updated.nextAgent
                         /\ callerView = View(updated, LoadedForCall.heap)

\* A rejection below the cap on a checkpoint routed to A: the run went on
\* with A, after the one checkpoint of the feedback.
C17_Witness ==
    /\ api = "submitHumanFeedback" /\ pc = "returned"
    /\ ~args.feedback.approved /\ args.feedback.feedback = "more"
    /\ Len(HeldBefore(args.threadId)) = 2
    /\ Len(calls) > 0 /\ calls[1].agent = "A"
    /\ Len(getCheckpoints(checkpoints, args.threadId)) = 3 + iterations

\* A rejection on a checkpoint of a suspended run: returned as it is.
C17_WitnessSuspended ==
    /\ api = "submitHumanFeedback" /\ pc = "returned"
    /\ ~args.feedback.approved
    /\ getNextAgent(state) = HUMAN /\ calls = <<>>

(***************************************************************************)
(* Properties of stream.                                                   *)
(***************************************************************************)
\* The events of the calls from the i-th on when every call is reported as
\* agent_start, the message the agent appended, agent_complete with the
\* agent routed to, and complete ends the stream.
RECURSIVE EventsFrom(_)
EventsFrom(i) ==
    IF i > Len(calls) THEN <<CompleteEvent>>
    ELSE LET a == calls[i].agent
             routed == IF i < Len(calls) THEN calls[i + 1].agent
                       ELSE getNextAgent(state)
         IN  <<AgentStartEvent(a),
               MessageEvent(a, AssistantMsg(Says(a, agents[a]))),
               AgentCompleteEvent(routed)>> \o EventsFrom(i + 1)

\* The agents called worked on the container they were given.
NoFreshContainer ==
    \A i \in 1..Len(calls) : agents[calls[i].agent].outcome # "fresh"

\* C18: a stream consumed to its end without an error has delivered, for each
\* agent call in order, agent_start naming the agent, one message event for
\* each message the agent appended (whether it returned the container or
\* null), agent_complete naming the next agent, and complete as the one last
\* event.
C18_StreamEvents ==
    (api = "stream" /\ pc = "returned" /\ NoFreshContainer)
        => events = EventsFrom(1)

ErrorEvents == {i \in 1..Len(events) : events[i].type = "error"}

\* C19: a failed lookup, a throwing agent or a timeout in stream gives one
\* error event, which is the last event; the consumer's next pull raises the
\* error caught; and from the error event on no agent is called and no
\* checkpoint is saved.  A stream that failed has delivered its error event.
C19_StreamError ==
    /\ [](api = "stream" =>
            /\ Cardinality(ErrorEvents) <= 1
            /\ ErrorEvents # {} =>
                  /\ ErrorEvents = {Len(events)}
                  /\ events[Len(events)].error = error
                  /\ \/ pc = "s.yield" /\ args.resume = "s.throw"
                     \/ pc \in {"s.throw", "failed"}
            /\ pc \in {"s.throw", "failed"} => ErrorEvents # {})
    /\ [][(api = "stream" /\ ErrorEvents # {}) =>
             /\ calls' = calls
             /\ checkpoints' = checkpoints
             /\ events' = events
             /\ pc' \in {"s.throw", "failed"}]_vars

\* A stream that failed on its second agent: B, reached from A, routed to a
\* name that is not registered, with a checkpoint saved after A.
C19_Witness ==
    /\ api = "stream" /\ pc = "failed"
    /\ Len(calls) = 2 /\ calls[2].agent = "B"
    /\ error = NotFoundError("X")
    /\ events[Len(events)] = ErrorEvent(NotFoundError("X"))
    /\ options.checkpoint
    /\ Len(getCheckpoints(checkpoints, options.threadId)) = 2

(***************************************************************************)
(* Properties of invoke and stream side by side.                           *)
(***************************************************************************)
\* A run is at a turn of its loop: it has reached the loop, and stream is not
\* between the routing and the end (checkpoint, count) of the turn before.
RunStarted ==
    /\ pc \notin {"idle", "s.begin", "s.save"}
    /\ ~(pc = "s.yield" /\ args.resume \in {"s.begin", "s.save"})

\* The loop has been directed to a name that is neither the sentinel nor
\* registered, with iterations left.
DirectedToUnknown ==
    /\ RunStarted
    /\ currentAgent \notin DOMAIN agents \cup {null, "", HUMAN}
    /\ iterations < config.maxIterations

BothEnded ==
    /\ api = "stream"
    /\ pc \in {"returned", "failed"}
    /\ "invoke" \in DOMAIN args

\* C24: with the same initial state, start agent, options and agents, a
\* stream consumed to its end calls the same agents in the same order,
\* returns the same final state and saves the same checkpoint documents as
\* invoke does when it returns, also where invoke suspends at the sentinel
\* (waitForHuman true) or skips it (waitForHuman false).
C24_StreamAsInvoke ==
    (BothEnded /\ args.invoke.pc = "returned")
        => /\ pc = "returned"
           /\ calls = args.invoke.calls
           /\ View(state, heap) = args.invoke.state
           /\ SavedStates(checkpoints, options) = args.invoke.saved

\* C25: with the same inputs stream fails exactly when invoke fails, with
\* the same error, which its error event carries; an agent over the timeout
\* makes both fail with the error naming the agent.
C25_StreamFailsAsInvoke ==
    BothEnded
        => /\ (pc = "failed") = (args.invoke.pc = "failed")
           /\ pc = "failed"
                 => /\ error = args.invoke.error
                    /\ events[Len(events)] = ErrorEvent(args.invoke.error)

\* C26: stream runs only when the consumer pulls.  While the generator is
\* suspended at a yield the one step possible is the consumer's pull, which
\* calls no agent, saves nothing and produces no event; every event leaves
\* the generator suspended; and an agent is called only from the position
\* the generator is resumed at after that agent's agent_start.
C26_PullDriven ==
    [][api = "stream" =>
          /\ pc = "s.yield"
                => /\ pc' = args.resume
                   /\ calls' = calls
                   /\ checkpoints' = checkpoints
                   /\ events' = events
                   /\ state' = state
                   /\ heap' = heap
          /\ events' # events => pc' = "s.yield"
          /\ (pc' = "s.try" /\ pc # "s.try") => pc = "s.yield"
          /\ calls' # calls
                => /\ pc = "s.try"
                   /\ events[Len(events)]
                          = AgentStartEvent(calls'[Len(calls')].agent)]_vars

\* The consumer has not pulled after the agent_complete of the second agent:
\* two agents called, one checkpoint saved.
C26_Witness ==
    /\ api = "stream" /\ pc = "s.yield" /\ args.resume = "s.save"
    /\ Len(calls) = 2
    /\ options.checkpoint
    /\ Len(getCheckpoints(checkpoints, options.threadId)) = 1
    /\ events[Len(events)].type = "agent_complete"

(***************************************************************************)
(* Properties of createRoutingGraph.                                       *)
(***************************************************************************)
\* C29: in an executor built by createRoutingGraph, after every call of a
\* wrapped agent, whether it returned a container or null, the agent invoke
\* goes on with is the routing function applied to the state after the call,
\* whatever nextAgent the agent set.
C29_RoutingOverrides ==
    [][(wrapper = "routing" /\ pc = "await" /\ pc' = "loop")
          => currentAgent' = routingFn(state')]_vars

(***************************************************************************)
(* Properties of createParallelGraph.                                      *)
(***************************************************************************)
\* The places <<branch, position>> of the messages with content c in the
\* containers the branches returned.
Occurrences(c) ==
    {p \in UNION {{<<i, k>> : k \in 1..Len(args.branches[i].result.messages)} :
                     i \in {j \in DOMAIN args.branches :
                               args.branches[j].status = "state"}} :
        args.branches[p[1]].result.messages[p[2]].content = c}

Before(p, q) == p[1] < q[1] \/ (p[1] = q[1] /\ p[2] < q[2])

FirstOccurrence(c) ==
    CHOOSE p \in Occurrences(c) :
        \A q \in Occurrences(c) : p = q \/ Before(p, q)

\* C30: the container the parallel agent returns holds the messages from
\* before the fan-out as an unchanged prefix, followed by messages of the
\* branch results: each content that the results hold and the prefix does
\* not is there once, by its first message in target order and order within
\* the branch, and the added messages stand in that order; and its
\* parallelTargets is an empty list.
C30_ParallelMerge ==
    (api = "parallel" /\ pc = "returned") =>
        LET pre == args.pre.messages
            out == state.messages
            added == SubSeq(out, Len(pre) + 1, Len(out))
            held == {c \in {"Hello", "same", "A", "B", "C"} :
                        Occurrences(c) # {}}
            inPre == {pre[i].content : i \in 1..Len(pre)}
        IN  /\ Len(out) >= Len(pre)
            /\ SubSeq(out, 1, Len(pre)) = pre
            /\ \A i, j \in 1..Len(added) :
                   i # j => added[i].content # added[j].content
            /\ {added[i].content : i \in 1..Len(added)} = held \ inPre
            /\ \A i \in 1..Len(added) :
                   LET p == FirstOccurrence(added[i].content)
                   IN  /\ added[i] = args.branches[p[1]].result.messages[p[2]]
                       /\ \A j \in 1..Len(added) :
                              i < j => Before(p, FirstOccurrence(
                                                     added[j].content))
            /\ getMetadata(state, "parallelTargets").t = "object"
            /\ TargetsOf(state, heap) = <<>>

\* Two branches returned a message of the same content: it was added once.
C30_Witness ==
    /\ api = "parallel" /\ pc = "returned"
    /\ Len(args.branches) = 2
    /\ \A i \in 1..2 : args.branches[i].status = "state"
    /\ args.branches[1].name = "B" /\ args.branches[2].name = "A"
    /\ agents["A"].says = "same" /\ agents["B"].says = "same"
    /\ agents["A"].outcome = "state"
    /\ args.pre.messages = <<UserMsg("Hello")>>
    /\ state.messages = <<UserMsg("Hello"), AssistantMsg("same")>>

\* The heap after the branches from the i-th on have run one after the
\* other in target order, starting on heap h.
RECURSIVE HeapInOrder(_, _)
HeapInOrder(i, h) ==
    IF i > Len(args.branches) THEN h
    ELSE LET br == args.branches[i]
         IN  IF br.status = "undefined" THEN HeapInOrder(i + 1, h)
             ELSE HeapInOrder(i + 1, RunAgent(br.given, h, br.name,
                                              agents[br.name]).heap)

\* C31: the result of a fan-out does not depend on the order in which the
\* branches complete.  What every branch has when it completes is what it
\* has when it runs alone on its clone, and the merged state, read with the
\* values its metadata holds, is the one of the branches running one after
\* the other in target order.
C31_OrderIndependent ==
    /\ (api = "parallel" /\ pc \in {"p.await", "returned"}) =>
           \A i \in DOMAIN args.branches :
               args.branches[i].status \in {"state", "null"} =>
                   LET br == args.branches[i]
                       alone == RunAgent(br.given, args.heap, br.name,
                                         agents[br.name])
                   IN  br.seen = View(alone.state, alone.heap)
    /\ (api = "parallel" /\ pc = "returned") =>
           View(state, heap)
               = View(state, Append(HeapInOrder(1, args.heap), <<>>))

\* C35: a parallelTargets entry that names no registered agent makes the
\* parallel agent fail with the agent-not-found error for that name; the
\* fan-out does not return a merged state.
C35_UnknownTargetFails ==
    (/\ api = "parallel" /\ pc \in {"returned", "failed"}
     /\ \E i \in DOMAIN args.branches : args.branches[i].status = "undefined")
        => /\ pc = "failed"
           /\ \E i \in DOMAIN args.branches :
                  /\ args.branches[i].status = "undefined"
                  /\ error = "Agent '" \o args.branches[i].name
                                 \o "' not found"

AgentCompleteEvents ==
    {i \in 1..Len(events) : events[i].type = "agent_complete"}

\* C40: in a checkpointing stream, when an agent_complete event is the event
\* held out to the consumer, the thread holds one checkpoint per
\* agent_complete event delivered so far, that of this step included.
C40_SavedBeforeComplete ==
    (/\ api = "stream" /\ pc = "s.yield" /\ Checkpointing
     /\ events # <<>>
     /\ events[Len(events)].type = "agent_complete")
        => Len(getCheckpoints(checkpoints, options.threadId))
               = Cardinality(AgentCompleteEvents)

(***************************************************************************)
(* Properties of the calls on a thread.                                    *)
(***************************************************************************)
\* C36: resumeFromCheckpoint and submitHumanFeedback terminate for every
\* checkpoint of the store, every agent call completing or timing out: while
\* the call is in the loop of invoke, the loop has a step that changes the
\* state of the call.
C36_ThreadCallsTerminate ==
    (api \in {"resumeFromCheckpoint", "submitHumanFeedback"} /\ InLoop)
        => ENABLED <<ThreadNext>>_vars

ResumableFields(s) ==
    [messages |-> s.messages, nextAgent |-> s.nextAgent,
     metadata |-> s.metadata, pendingApproval |-> s.pendingApproval,
     approvalCount |-> s.approvalCount]

LatestOfRun == loadLatestCheckpoint(checkpoints, options.threadId, heap)

\* C38: when invoke with checkpoint true and a threadId has returned after at
\* least one agent call, by completion, by the iteration cap or by suspension
\* at the sentinel, loadLatestCheckpoint of the thread gives a state with the
\* messages, nextAgent, metadata, pendingApproval and approvalCount of the
\* state returned.
C38_LatestIsReturned ==
    (/\ api = "invoke" /\ pc = "returned" /\ Checkpointing
     /\ Len(calls) >= 1)
        => /\ LatestOfRun.found
           /\ ResumableFields(View(LatestOfRun.state, LatestOfRun.heap))
                  = ResumableFields(View(state, heap))

\* A run suspended at the sentinel after an agent call, its latest
\* checkpoint routed to the sentinel too.
C38_Witness ==
    /\ api = "invoke" /\ pc = "returned" /\ Checkpointing
    /\ Len(calls) >= 1 /\ options.waitForHuman
    /\ getNextAgent(state) = HUMAN
    /\ LatestOfRun.found
    /\ getNextAgent(LatestOfRun.state) = HUMAN

\* A run stopped by the iteration cap with its last agent still named.
C38_WitnessCap ==
    /\ api = "invoke" /\ pc = "returned" /\ Checkpointing
    /\ iterations = config.maxIterations
    /\ getNextAgent(state) \in {"A", "B"}
    /\ LatestOfRun.found

(***************************************************************************)
(* Router-level specification: one executor built by createCyclicGraph,    *)
(* and up to MaxRuns invoke calls on it, one after the other, each on a    *)
(* container of its own with arrays of its own.  The closure's set of path *)
(* signatures lives as long as the executor.                               *)
(***************************************************************************)
MaxRuns == 2

CyclicRegistries ==
    {r \in Registries : /\ ~r["A"].touch
                        /\ r["A"].next \in {KEEP, null, "A", "B"}
                        /\ r["A"].outcome
                               \in {"state", "null", "fresh", "throw", "slow"}
                        /\ r["B"].next \in {null, "A"}}

CyclicOptionSets == {NoOptions, [NoOptions EXCEPT !.timeout = ShortTimeoutMs]}

CyclicInputs == {s \in InputStates : getNextAgent(s) = null}

CyclicInit ==
    /\ ContainersUnused
    /\ heap = <<<<"x">>>>
    /\ agents \in CyclicRegistries
    /\ \E given \in 0..MaxIterations :
           config = [maxIterations |-> EffectiveMaxIterations(given),
                     humanInTheLoop |-> FALSE]
    /\ wrapper = "cyclic"
    /\ visited = {}
    /\ StoreEmpty
    /\ pc = "idle"
    /\ inputState = NoContainer
    /\ callerView = NoContainer
    /\ startAgent = null
    /\ options = <<>>
    /\ state = NoContainer
    /\ currentAgent = null
    /\ iterations = 0
    /\ awaiting = <<>>
    /\ error = ""
    /\ calls = <<>>
    /\ api = "none"
    /\ args = [run |-> 0]
    /\ events = <<>>
    /\ storeLog = <<>>

\* executor.invoke(input, start, opts) once no call is running on the
\* executor, up to the loop: the first call or a later, independent one.
InvokeAgain(input, start, opts) ==
    /\ pc \in {"idle", "returned", "failed"}
    /\ args.run < MaxRuns
    /\ args' = [run |-> args.run + 1]
    /\ heap' = <<<<"x">>>>
    /\ inputState' = input
    /\ callerView' = View(input, heap')
    /\ startAgent' = start
    /\ options' = opts
    /\ state' = clone(input)
    /\ currentAgent' = start
    /\ iterations' = 0
    /\ awaiting' = <<>>
    /\ error' = ""
    /\ calls' = <<>>
    /\ pc' = "loop"
    /\ api' = "invoke"
    /\ UNCHANGED <<containerVars, executorVars, events, storeLog>>

CyclicNext ==
    \/ \E input \in CyclicInputs, start \in {"A", "B", "X"},
          opts \in CyclicOptionSets : InvokeAgain(input, start, opts)
    \/ InvokeLoopExit
    \/ InvokeAgentNotFound
    \/ InvokeCallAgent
    \/ AgentResolves
    \/ AgentThrows
    \/ AgentTimesOut

CyclicSpec == CyclicInit /\ [][CyclicNext]_vars

\* The executionPath a reader of the container finds, [] when there is none.
ExecutionPath(s, h) ==
    LET held == View(s, h).metadata["executionPath"]
    IN  IF held.t = "array" THEN held.v ELSE <<>>

\* C33: the router's set of signatures only grows, over all the runs on it.
\* A call of a wrapped agent whose signature (executionPath and the agent's
\* name, joined) is in the set appends one system message noting the cycle,
\* sets nextAgent to null, leaves the rest of the container alone and
\* returns it with the wrapped agent not run; a call whose signature is not
\* in the set adds it, extends executionPath by the agent's name and runs the
\* wrapped agent on the container.
C33_CycleRouter ==
    [][/\ visited \subseteq visited'
       /\ (pc = "loop" /\ pc' = "await") =>
              LET name == currentAgent
                  currentPath == Append(ExecutionPath(state, heap), name)
              IN  IF PathKey(currentPath) \in visited
                  THEN /\ awaiting'.cut
                       /\ visited' = visited
                       /\ View(state', heap')
                              = [View(state, heap) EXCEPT
                                    !.messages = Append(@, CycleMsg(name)),
                                    !.nextAgent = null]
                  ELSE /\ ~awaiting'.cut
                       /\ visited' = visited \cup {PathKey(currentPath)}
                       /\ ExecutionPath(state', heap') = currentPath
                       /\ state'.messages = state.messages
                       /\ state'.nextAgent = state.nextAgent
       /\ (pc = "await" /\ pc' = "loop") =>
              IF awaiting.cut
              THEN View(state', heap') = View(state, heap)
              ELSE LET r == RunAgent(state, heap, awaiting.agent,
                                     agents[awaiting.agent])
                   IN  View(state', heap') = View(r.state, r.heap)]_vars

\* The second run on the router is cut at its first call, by the signature
\* the first run recorded, and has returned with the one system message.
C33_Witness ==
    /\ wrapper = "cyclic" /\ args.run = 2 /\ pc = "returned"
    /\ Len(calls) = 1 /\ calls[1].cut
    /\ state.messages = <<UserMsg("Hello"), CycleMsg(calls[1].agent)>>
    /\ getNextAgent(state) = null

(***************************************************************************)
(* Concurrency-level specification: two invoke calls on one executor, on   *)
(* threads "t1" and "t2".  JavaScript runs one call at a time and leaves   *)
(* it only at an await: the call variables are those of the call that is   *)
(* running or at its await, and args.parked holds the variables of the     *)
(* other call, left at its agent's await or ended.  While a call awaits,   *)
(* the caller's other code may save to the thread "t0" and delete threads. *)
(***************************************************************************)
ConcThreads == {"t0", "t1", "t2"}

ConcRegistries ==
    {r \in ThreadRegistries : r["A"].next \in {KEEP, null, "A", "B"}}

\* The second call's input is told from the first's by its message.
ConcInput(threadId) ==
    [EmptyAgentState EXCEPT
        !.messages = <<UserMsg(IF threadId = "t1" THEN "Hello" ELSE "Other")>>,
        !.metadata["data"] = Ref(1)]

ConcInit ==
    /\ ContainersUnused
    /\ heap = <<<<"x">>>>
    /\ agents \in ConcRegistries
    /\ \E given \in 1..MaxIterations :
           config = [maxIterations |-> EffectiveMaxIterations(given),
                     humanInTheLoop |-> FALSE]
    /\ wrapper = "none"
    /\ visited = {}
    /\ StoreEmpty
    /\ pc = "idle"
    /\ inputState = NoContainer
    /\ callerView = NoContainer
    /\ startAgent = null
    /\ options = <<>>
    /\ state = NoContainer
    /\ currentAgent = null
    /\ iterations = 0
    /\ awaiting = <<>>
    /\ error = ""
    /\ calls = <<>>
    /\ api = "none"
    /\ args = [parked |-> <<>>, deleted |-> {}]
    /\ events = <<>>
    /\ storeLog = <<>>

\* The variables of the call that is running.
Running ==
    [pc |-> pc, inputState |-> inputState, callerView |-> callerView,
     startAgent |-> startAgent, options |-> options, state |-> state,
     currentAgent |-> currentAgent, iterations |-> iterations,
     awaiting |-> awaiting, error |-> error, calls |-> calls]

\* executor.invoke(input, start, { threadId, checkpoint: true }), up to the
\* loop: the first call, or the second one made while the first awaits.
ConcInvoke(start) ==
    LET threadId == IF pc = "idle" THEN "t1" ELSE "t2"
    IN  /\ \/ pc = "idle"
           \/ pc = "await" /\ args.parked = <<>>
        /\ args' = [args EXCEPT !.parked = IF pc = "idle" THEN <<>>
                                           ELSE Running]
        /\ inputState' = ConcInput(threadId)
        /\ callerView' = View(ConcInput(threadId), heap)
        /\ startAgent' = start
        /\ options' = ThreadOptions(threadId)
        /\ state' = clone(ConcInput(threadId))
        /\ currentAgent' = start
        /\ iterations' = 0
        /\ awaiting' = <<>>
        /\ error' = ""
        /\ calls' = <<>>
        /\ pc' = "loop"
        /\ api' = "invoke"
        /\ UNCHANGED <<heap, containerVars, executorVars, events, storeLog>>

\* The running call is at its await or has ended, and the event loop goes on
\* with the other call, whose agent has completed.
ConcSwitch ==
    /\ pc \in {"await", "returned", "failed"}
    /\ args.parked # <<>>
    /\ args.parked.pc = "await"
    /\ args' = [args EXCEPT !.parked = Running]
    /\ pc' = args.parked.pc
    /\ inputState' = args.parked.inputState
    /\ callerView' = args.parked.callerView
    /\ startAgent' = args.parked.startAgent
    /\ options' = args.parked.options
    /\ state' = args.parked.state
    /\ currentAgent' = args.parked.currentAgent
    /\ iterations' = args.parked.iterations
    /\ awaiting' = args.parked.awaiting
    /\ error' = args.parked.error
    /\ calls' = args.parked.calls
    /\ UNCHANGED <<heap, containerVars, executorVars, api, events, storeLog>>

\* The caller's code between the calls' steps.
BetweenSteps == pc \in {"idle", "await", "returned", "failed"}

\* checkpointManager.saveCheckpoint("t0", state) by the caller.
ConcSave ==
    LET saved == saveCheckpoint(checkpoints, threadIndex, "t0",
                                ConcInput("t0"), heap, idSource + 1, 0)
    IN  /\ BetweenSteps
        /\ "t0" \notin DOMAIN checkpoints /\ "t0" \notin args.deleted
        /\ checkpoints' = saved.checkpoints
        /\ threadIndex' = saved.threadIndex
        /\ idSource' = idSource + 1
        /\ UNCHANGED <<heap, containerVars, agents, config, wrapper, visited,
                       callVars, apiVars>>

\* checkpointManager.deleteThread(threadId) by the caller, once per thread.
ConcDelete(threadId) ==
    LET r == deleteThread(checkpoints, threadIndex, threadId)
    IN  /\ BetweenSteps
        /\ threadId \in DOMAIN checkpoints /\ threadId \notin args.deleted
        /\ args' = [args EXCEPT !.deleted = @ \cup {threadId}]
        /\ checkpoints' = r.checkpoints
        /\ threadIndex' = r.threadIndex
        /\ UNCHANGED <<heap, containerVars, agents, config, wrapper, visited,
                       idSource, callVars, api, events, storeLog>>

ConcNext ==
    \/ \E start \in {"A", "B", "X"} : ConcInvoke(start)
    \/ ConcSwitch
    \/ ConcSave
    \/ \E threadId \in ConcThreads : ConcDelete(threadId)
    \/ InvokeLoopExit
    \/ InvokeAgentNotFound
    \/ InvokeCallAgent
    \/ AgentResolves
    \/ AgentThrows

ConcSpec == ConcInit /\ [][ConcNext]_vars

\* What the reads of the store return for a thread: getCheckpoints,
\* loadLatestCheckpoint, and loadCheckpoint by every id the store holds.
AllIds(cps) == UNION {{cps[t][i].id : i \in 1..Len(cps[t])} : t \in DOMAIN cps}

ReadsOf(cps, threadId, h) ==
    [getCheckpoints |-> getCheckpoints(cps, threadId),
     loadLatestCheckpoint |-> Returned(loadLatestCheckpoint(cps, threadId, h)),
     loadCheckpoint |-> [id \in AllIds(checkpoints) \cup AllIds(checkpoints')
                            |-> Returned(loadCheckpoint(cps, threadId, id, h))]]

\* The thread's checkpoints are those of the call c so far: one per completed
\* agent call, each of a state grown from the call's own input.
HoldsRunOf(c) ==
    LET list == getCheckpoints(checkpoints, c.options.threadId)
    IN  /\ Len(list) = c.iterations
        /\ \A i \in 1..Len(list) :
               /\ list[i].threadId = c.options.threadId
               /\ list[i].state.messages[1] = c.inputState.messages[1]
               /\ Len(list[i].state.messages) = i + 1

\* C32: with two invoke calls interleaved at their agents' awaits on one
\* executor, on different threads, each thread that was not deleted holds
\* exactly the snapshots of its own call, one per completed agent call in
\* their order, the newest being the state of that call after the step; and
\* a step that saves to a thread or deletes one changes what getCheckpoints,
\* loadCheckpoint and loadLatestCheckpoint return for no other thread.
C32_ThreadsIndependent ==
    /\ []((pc # "idle" /\ options.threadId \notin args.deleted)
              => HoldsRunOf(Running))
    /\ []((args.parked # <<>> /\ "t1" \notin args.deleted
                              /\ "t2" \notin args.deleted)
              => /\ HoldsRunOf(args.parked)
                 /\ args.parked.options.threadId # options.threadId)
    /\ [][\A t \in ConcThreads :
              ReadsOf(checkpoints', t, heap') # ReadsOf(checkpoints, t, heap)
                  => \/ /\ pc = "await" /\ pc' = "loop"
                        /\ options.threadId = t
                        /\ getCheckpoints(checkpoints', t)
                               = Append(getCheckpoints(checkpoints, t),
                                        getCheckpoints(checkpoints', t)[
                                            Len(getCheckpoints(checkpoints', t))])
                        /\ getCheckpoints(checkpoints', t)[
                               Len(getCheckpoints(checkpoints', t))].state
                               = serialize(state', heap')
                     \/ /\ args'.deleted = args.deleted \cup {t}
                        /\ t \notin args.deleted
                     \/ /\ t = "t0" /\ idSource' # idSource
                        /\ UNCHANGED callVars]_vars

\* Both calls have completed two agent calls each, the second call's steps
\* falling between the first call's, and a thread was deleted meanwhile.
C32_Witness ==
    /\ pc = "returned" /\ args.parked # <<>> /\ args.parked.pc = "returned"
    /\ iterations = 2 /\ args.parked.iterations = 2
    /\ options.threadId = "t1"
    /\ Len(getCheckpoints(checkpoints, "t1")) = 2
    /\ Len(getCheckpoints(checkpoints, "t2")) = 2
    /\ getCheckpoints(checkpoints, "t1")[2].timestamp
           > getCheckpoints(checkpoints, "t2")[1].timestamp
    /\ getCheckpoints(checkpoints, "t2")[2].timestamp
           > getCheckpoints(checkpoints, "t1")[1].timestamp
    /\ args.deleted = {"t0"}

(***************************************************************************)
(* Core-level specification: the container operations of StateSpec, and an *)
(* executor (plain, routing or cycle-breaking) with threads created on its *)
(* store and then one call of invoke, resumeFromCheckpoint or              *)
(* submitHumanFeedback, agents failing, timing out and returning null or a *)
(* container of their own included.                                        *)
(***************************************************************************)
CoreRegistries ==
    {r \in Registries : /\ ~r["A"].touch
                        /\ r["A"].next \in {KEEP, null, "A", "B"}
                        /\ r["A"].outcome \in {"state", "null", "fresh",
                                               "throw", "slow"}
                        /\ r["B"].next \in {null, "A"}}

CoreOptionSets ==
    {[ThreadOptions("t1") EXCEPT !.timeout = ms] : ms \in {0, ShortTimeoutMs}}

ExecutorInit ==
    /\ ContainersUnused
    /\ heap = <<<<"x">>>>
    /\ agents \in CoreRegistries
    /\ \E given \in 1..MaxIterations :
           config = [maxIterations |-> EffectiveMaxIterations(given),
                     humanInTheLoop |-> FALSE]
    /\ wrapper \in {"none", "routing", "cyclic"}
    /\ visited = {}
    /\ StoreEmpty
    /\ pc = "idle"
    /\ inputState = NoContainer
    /\ callerView = NoContainer
    /\ startAgent = null
    /\ options = <<>>
    /\ state = NoContainer
    /\ currentAgent = null
    /\ iterations = 0
    /\ awaiting = <<>>
    /\ error = ""
    /\ calls = <<>>
    /\ CallerIdle

CoreInit == StateInit \/ ExecutorInit

\* executor.invoke(input, start, opts) on the executor and its store as they
\* are, up to the loop.
CoreInvoke(input, start, opts) ==
    /\ pc = "idle"
    /\ api' = "invoke"
    /\ args' = [threadId |-> opts.threadId, pre |-> Store, heap |-> heap]
    /\ InvokeFrom(input, heap, start, opts)
    /\ UNCHANGED <<containerVars, executorVars, awaiting, calls, events,
                   storeLog>>

CoreNext ==
    \/ StateNext
    \/ ThreadNext
    \/ \E input \in InputStates, start \in {"A", "B", "X"},
          opts \in CoreOptionSets : CoreInvoke(input, start, opts)
    \/ AgentTimesOut

CoreSpec == CoreInit /\ [][CoreNext]_vars

IsPrefixOf(a, b) == Len(a) <= Len(b) /\ SubSeq(b, 1, Len(a)) = a

\* The step is the return of an agent that built a container of its own.
ReturnsOwnContainer ==
    /\ pc = "await" /\ pc' = "loop"
    /\ ~awaiting.cut
    /\ agents[awaiting.agent].outcome = "fresh"

\* C34: messages are append-only.  On the containers: an addMessage puts its
\* one message after the messages held, no operation removes or reorders a
\* held message, and a clone or a deserialized copy starts with the messages
\* of its origin.  On the executor: a call starts from the messages of its
\* input or of the checkpoint it loaded (then the feedback message, if any),
\* every later step of the run extends the messages of the step before as a
\* prefix unless an agent returns a container of its own, and a checkpoint,
\* once saved, stays as it is and holds the messages of the state saved.
C34_AppendOnly ==
    [][/\ \A o \in 1..Len(objs) :
              /\ IsPrefixOf(objs[o].messages, objs'[o].messages)
              /\ IF last'.op = "addMessage" /\ last'.target = o /\ nops' # nops
                 THEN objs'[o].messages
                          = Append(objs[o].messages, AssistantMsg("m"))
                 ELSE Len(objs'[o].messages) <= Len(objs[o].messages) + 1
       /\ Len(objs') > Len(objs) =>
              objs'[Len(objs')].messages = objs[last'.target].messages
       /\ (pc = "idle" /\ pc' # "idle") =>
              IF api' = "invoke"
              THEN state'.messages = inputState'.messages
              ELSE \A loaded \in {LoadedForCall'} :
                       loaded.found =>
                           /\ IsPrefixOf(loaded.state.messages,
                                         state'.messages)
                           /\ Len(state'.messages)
                                  <= Len(loaded.state.messages) + 1
       /\ (pc \notin {"idle", "unused"} /\ ~ReturnsOwnContainer) =>
              IsPrefixOf(state.messages, state'.messages)
       /\ \A t \in DOMAIN checkpoints :
              /\ t \in DOMAIN checkpoints'
              /\ IsPrefixOf(checkpoints[t], checkpoints'[t])
       /\ (pc = "await" /\ pc' = "loop" /\ Checkpointing) =>
              LET list == getCheckpoints(checkpoints', options.threadId)
              IN  list[Len(list)].state.messages = state'.messages]_vars

\* A run entered by a rejection with feedback, on a checkpoint that holds one
\* message: the feedback and the two agents' messages follow it in order.
C34_Witness ==
    /\ api = "submitHumanFeedback" /\ pc = "returned"
    /\ Len(calls) = 2
    /\ state.messages = <<UserMsg("Hello"), UserMsg("Feedback: more"),
                          AssistantMsg("A"), AssistantMsg("B")>>

\* Two addMessage calls on an empty container.
C34_WitnessContainer ==
    /\ pc = "unused" /\ nops = 2 /\ Len(objs) = 1
    /\ last.op = "addMessage"
    /\ objs[1].messages = <<AssistantMsg("m"), AssistantMsg("m")>>

\* The agent calls of the run that have returned when the run fails: all of
\* them when the failure is an agent that is not registered, all but the
\* last when the last one threw or timed out.
CompletedCalls ==
    IF error = NotFoundError(currentAgent) THEN Len(calls) ELSE Len(calls) - 1

\* C39: a failing call leaves the store consistent.  When invoke, with
\* checkpointing on, fails at its k-th agent call (agent not found, timeout
\* or agent error), the thread holds what it held when invoke was entered
\* and the k-1 checkpoints of the calls that completed, and the other threads
\* what they held; when resumeFromCheckpoint or submitHumanFeedback fails
\* with checkpoint-not-found, the store is what it was before the call.
C39_FailureKeepsStore ==
    pc = "failed" =>
        IF api \in {"resumeFromCheckpoint", "submitHumanFeedback"}
           /\ Referenced = {}
        THEN /\ error = CheckpointNotFoundError(args.checkpointId,
                                                args.threadId)
             /\ Store = args.pre
        ELSE IF error = NoNextAgentError THEN Store = args.pre
        ELSE /\ Checkpointing
             /\ iterations = CompletedCalls
             /\ Appended(CompletedCalls
                             + IF api = "submitHumanFeedback" THEN 1 ELSE 0)

\* invoke on a thread that holds a checkpoint fails at its second agent call
\* by timeout: one checkpoint more.
C39_Witness ==
    /\ api = "invoke" /\ pc = "failed"
    /\ Len(calls) = 2
    /\ error = TimeoutError(calls[2].agent)
    /\ Len(HeldBefore(args.threadId)) = 1
    /\ Len(getCheckpoints(checkpoints, args.threadId)) = 2

\* submitHumanFeedback names an id the thread does not hold, on a store that
\* holds checkpoints.
C39_WitnessNotFound ==
    /\ api = "submitHumanFeedback" /\ pc = "failed"
    /\ Referenced = {}
    /\ Len(HeldBefore(args.threadId)) = 2
    /\ Store = args.pre

====
